---------------------------- MODULE Spec2Model ----------------------------
(***************************************************************************)
(* Model of the evidence-weighted feature detection and scoring engine of  *)
(* the Salesforce analyzer: Evidence / EvidenceCollection (models/         *)
(* evidence.js), EvidenceCollector (core/evidence-collector.js),           *)
(* ScoringEngine (core/scoring-engine.js), ProductAnalyzer (analyzers/     *)
(* product-analyzer.js) and AnalyzerManager (core/analyzer-manager.js).    *)
(*                                                                         *)
(* JavaScript values are modelled with their dynamic type: a value that    *)
(* can be undefined, a boolean or an object is a tagged record, a number   *)
(* is an exact rational with a NaN element, and an object is a record      *)
(* whose DOMAIN is the set of its own properties.                          *)
(***************************************************************************)
EXTENDS Integers, Sequences, FiniteSets, TLC

VARIABLES
    config,     \* the configuration the AnalyzerManager was constructed with
    pc,         \* position of the manager: "new", "idle", "loop", "done", "threw";
                \* of a lone probe: "collector", "collected"; of a lone scoring
                \* call: "scoring", "scored"
    k,          \* index of the product key analyzeAll is at
    results,    \* analyzeAll's results map, as a sequence of [key, result]
    returned,   \* what analyzeAll handed to its caller (resolved / rejected)
    analyzer,   \* the ProductAnalyzer of the current product
    calls,      \* org calls issued by the handler that ran last
    probe,      \* what the handler that ran last was given and what it returned
    scoring,    \* input and output of the last scoring-engine call
    now         \* the clock (new Date()), in days

vars == <<config, pc, k, results, returned, analyzer, calls, probe, scoring, now>>

---------------------------------------------------------------------------
(* Bounds of the model *)

MaxProducts == 2    \* product keys per configuration
MaxCount == 6       \* largest usage count fed to the scoring engine
MaxThreshold == 3   \* largest usage threshold fed to the scoring engine

---------------------------------------------------------------------------
(* JavaScript values *)

Undefined == [t |-> "undefined"]
JBool(b) == [t |-> "boolean", b |-> b]
JObj(o) == [t |-> "object", o |-> o]

\* ToBoolean of a value that is undefined, a boolean or an object
Truthy(v) ==
    CASE v.t = "undefined" -> FALSE
      [] v.t = "boolean" -> v.b
      [] v.t = "object" -> TRUE

\* obj.f of an object: the property, or undefined
Has(o, f) == f \in DOMAIN o

\* `{}`
EmptyObject == [f \in {} |-> 0]

\* { ...a, ...b }
Spread(a, b) ==
    [f \in (DOMAIN a) \cup (DOMAIN b) |-> IF f \in DOMAIN b THEN b[f] ELSE a[f]]

\* { f: source.f, ... } for the properties in `fields`: a property whose
\* value is undefined is left out
Props(source, fields) == [f \in (DOMAIN source) \cap fields |-> source[f]]

\* a nullable value: null, or one value
Null == << >>
Some(x) == <<x>>

---------------------------------------------------------------------------
(* JavaScript numbers: exact rationals n/d with d > 0, and NaN (d = 0) *)

RECURSIVE GCD(_, _)
GCD(a, b) == IF b = 0 THEN a ELSE GCD(b, a % b)

Abs(x) == IF x < 0 THEN -x ELSE x

NaN == [n |-> 0, d |-> 0]
IsNaN(x) == x.d = 0

Frac(n, d) ==
    IF d = 0 THEN NaN
    ELSE LET g == GCD(Abs(n), Abs(d))
             s == IF d < 0 THEN -1 ELSE 1
         IN [n |-> (s * n) \div g, d |-> (s * d) \div g]

Num(n) == [n |-> n, d |-> 1]

Mul(x, y) == IF IsNaN(x) \/ IsNaN(y) THEN NaN ELSE Frac(x.n * y.n, x.d * y.d)
Add(x, y) == IF IsNaN(x) \/ IsNaN(y) THEN NaN ELSE Frac(x.n * y.d + y.n * x.d, x.d * y.d)
Sub(x, y) == IF IsNaN(x) \/ IsNaN(y) THEN NaN ELSE Frac(x.n * y.d - y.n * x.d, x.d * y.d)
\* x / y of finite operands; 0/0 is NaN, and x/0 does not arise here
Div(x, y) == IF IsNaN(x) \/ IsNaN(y) THEN NaN ELSE Frac(x.n * y.d, x.d * y.n)

\* comparisons with NaN are false
Geq(x, y) == ~IsNaN(x) /\ ~IsNaN(y) /\ x.n * y.d >= y.n * x.d
Gt(x, y) == ~IsNaN(x) /\ ~IsNaN(y) /\ x.n * y.d > y.n * x.d

\* Math.max / Math.min: NaN if either argument is NaN
MathMax(x, y) == IF IsNaN(x) \/ IsNaN(y) THEN NaN ELSE IF Geq(x, y) THEN x ELSE y
MathMin(x, y) == IF IsNaN(x) \/ IsNaN(y) THEN NaN ELSE IF Geq(x, y) THEN y ELSE x

\* ToNumber of a property that is a number or is missing (undefined -> NaN)
ToNumber(o, f) == IF Has(o, f) THEN o[f] ELSE NaN

\* ToBoolean of a number: 0 and NaN are falsy
TruthyNum(x) == ~IsNaN(x) /\ x.n # 0

---------------------------------------------------------------------------
(* models/evidence.js *)

\* a Date, by its day number
Date(day) == [t |-> "date", day |-> day]

\* new Evidence(type, name, ...rest): the constructor binds its parameters
\* (type, name, productFamily, detected, details = {}, timestamp = new Date())
\* by position; `rest` is the list of arguments after `name`.  A parameter
\* with no argument is undefined, and a default applies to an undefined one.
Evidence(type, name, rest, today) ==
    LET Arg(i) == IF i <= Len(rest) THEN rest[i] ELSE Undefined
    IN [type |-> type,
        name |-> name,
        productFamily |-> Arg(1),
        detected |-> Arg(2),
        details |-> IF Arg(3) = Undefined THEN EmptyObject ELSE Arg(3).o,
        timestamp |-> IF Arg(4) = Undefined THEN Date(today) ELSE Arg(4)]

\* new EvidenceCollection(productName)
EvidenceCollection(productName) ==
    [productName |-> productName, items |-> << >>, categorizedItems |-> EmptyObject]

\* addEvidence with a fault: the list of the type is begun anew at each call
addEvidence_NewList(coll, evidence) ==
    [coll EXCEPT
       !.items = Append(@, evidence),
       !.categorizedItems =
           [ty \in (DOMAIN @) \cup {evidence.type} |->
               IF ty = evidence.type THEN <<evidence>> ELSE @[ty]]]

\* EvidenceCollection.addEvidence
addEvidence(coll, evidence) ==
    LET cat == coll.categorizedItems
        old == IF Has(cat, evidence.type) THEN cat[evidence.type] ELSE << >>
    IN [coll EXCEPT
          !.items = Append(@, evidence),
          !.categorizedItems =
              [ty \in (DOMAIN cat) \cup {evidence.type} |->
                  IF ty = evidence.type THEN Append(old, evidence) ELSE cat[ty]]]

\* EvidenceCollection.getEvidenceByType
getEvidenceByType(coll, type) ==
    IF Has(coll.categorizedItems, type) THEN coll.categorizedItems[type] ELSE << >>

\* EvidenceCollection.getDetectedEvidence
getDetectedEvidence(coll) == SelectSeq(coll.items, LAMBDA e : Truthy(e.detected))

---------------------------------------------------------------------------
(* core/scoring-engine.js *)

UsageTypes == {"objectUsage", "userActivity", "apiUsage"}

\* calculateItemScore with a fault: without the guard on item.detected, and
\* with the tiers compared by > instead of >=
calculateItemScore_NoDetectedGuard(item, type) ==
    IF type = "codeReferences" /\ Has(item.details, "matches")
    THEN MathMin(Num(1), Frac(Len(item.details.matches), 3))
    ELSE IF type \in UsageTypes /\ ~TruthyNum(ToNumber(item.details, "count"))
    THEN Frac(1, 2)
    ELSE Num(1)

calculateItemScore_StrictTiers(item, type) ==
    IF ~Truthy(item.detected) THEN Num(0)
    ELSE IF type \in UsageTypes
    THEN LET count == ToNumber(item.details, "count")
             threshold == ToNumber(item.details, "threshold")
         IN IF ~TruthyNum(count) THEN Frac(1, 2)
            ELSE IF ~TruthyNum(threshold) THEN Num(1)
            ELSE IF Gt(count, Mul(threshold, Num(2))) THEN Num(1)
            ELSE IF Gt(count, threshold) THEN Frac(3, 4)
            ELSE Mul(Div(count, threshold), Frac(1, 2))
    ELSE Num(1)

\* ScoringEngine.calculateItemScore
calculateItemScore(item, type) ==
    IF ~Truthy(item.detected) THEN Num(0)
    ELSE CASE type = "objectPresence" -> Num(1)
           [] type \in UsageTypes ->
                LET count == ToNumber(item.details, "count")
                    threshold == ToNumber(item.details, "threshold")
                IN IF ~TruthyNum(count) THEN Frac(1, 2)
                   ELSE IF ~TruthyNum(threshold) THEN Num(1)
                   ELSE IF Geq(count, Mul(threshold, Num(2))) THEN Num(1)
                   ELSE IF Geq(count, threshold) THEN Frac(3, 4)
                   ELSE Mul(Div(count, threshold), Frac(1, 2))
           [] type = "featureConfiguration" -> Num(1)
           [] type = "codeReferences" ->
                IF ~Has(item.details, "matches") THEN Frac(1, 2)
                ELSE MathMin(Num(1), Frac(Len(item.details.matches), 3))
           [] OTHER -> Num(1)

\* applyTimeDecay with a fault: without the floor of the decay factor at 0,
\* and with a missing timestamp read as day 0
applyTimeDecay_NoFloor(algorithmConfig, score, timestamp, today) ==
    IF timestamp = Undefined \/ ~Has(algorithmConfig, "decayFactors") THEN score
    ELSE LET rate == ToNumber(algorithmConfig.decayFactors, "rate")
             decayRate == IF TruthyNum(rate) THEN rate ELSE Frac(1, 100)
         IN Mul(score, Sub(Num(1), Mul(Num(today - timestamp.day), decayRate)))

applyTimeDecay_EpochTimestamp(algorithmConfig, score, timestamp, today) ==
    IF ~Has(algorithmConfig, "decayFactors") THEN score
    ELSE LET day == IF timestamp = Undefined THEN 0 ELSE timestamp.day
             rate == ToNumber(algorithmConfig.decayFactors, "rate")
             decayRate == IF TruthyNum(rate) THEN rate ELSE Frac(1, 100)
         IN Mul(score, MathMax(Num(0), Sub(Num(1), Mul(Num(today - day), decayRate))))

\* ScoringEngine.applyTimeDecay; algorithmConfig.decayFactors may be missing,
\* and a missing or zero rate falls back to 0.01 per day
applyTimeDecay(algorithmConfig, score, timestamp, today) ==
    IF timestamp = Undefined \/ ~Has(algorithmConfig, "decayFactors") THEN score
    ELSE LET ageInDays == Num(today - timestamp.day)
             rate == ToNumber(algorithmConfig.decayFactors, "rate")
             decayRate == IF TruthyNum(rate) THEN rate ELSE Frac(1, 100)
             decayFactor == MathMax(Num(0), Sub(Num(1), Mul(ageInDays, decayRate)))
         IN Mul(score, decayFactor)

\* item.weight: Evidence has no such property unless someone adds it
ItemWeight(item) == IF Has(item, "weight") THEN item.weight ELSE NaN

\* the contribution of the items of one evidence type: <<totalScore, totalWeight>>
RECURSIVE SumItems(_, _, _, _, _, _)
SumItems(algorithmConfig, type, items, i, acc, today) ==
    IF i > Len(items) THEN acc
    ELSE LET item == items[i]
             typeWeight == algorithmConfig.evidenceWeights[type]
             baseScore == calculateItemScore(item, type)
             decayedScore == applyTimeDecay(algorithmConfig, baseScore, item.timestamp, today)
             weightedScore == Mul(Mul(decayedScore, typeWeight), ItemWeight(item))
         IN SumItems(algorithmConfig, type, items, i + 1,
                     <<Add(acc[1], weightedScore),
                       Add(acc[2], Mul(ItemWeight(item), typeWeight))>>, today)

\* Object.keys(evidenceWeights).forEach(...), over the keys in `types`
RECURSIVE SumTypes(_, _, _, _, _)
SumTypes(algorithmConfig, coll, types, acc, today) ==
    IF types = {} THEN acc
    ELSE LET type == CHOOSE ty \in types : TRUE
         IN SumTypes(algorithmConfig, coll, types \ {type},
                     SumItems(algorithmConfig, type, getEvidenceByType(coll, type), 1, acc, today),
                     today)

\* calculateScore with a fault: without the guard on totalWeight, and without
\* the division by totalWeight
calculateScore_NoZeroGuard(algorithmConfig, coll, today) ==
    LET tot == SumTypes(algorithmConfig, coll, DOMAIN algorithmConfig.evidenceWeights,
                        <<Num(0), Num(0)>>, today)
    IN MathMin(Num(100), MathMax(Num(0), Mul(Div(tot[1], tot[2]), Num(100))))

calculateScore_NoNormalise(algorithmConfig, coll, today) ==
    LET tot == SumTypes(algorithmConfig, coll, DOMAIN algorithmConfig.evidenceWeights,
                        <<Num(0), Num(0)>>, today)
    IN IF Gt(tot[2], Num(0))
       THEN MathMin(Num(100), MathMax(Num(0), Mul(tot[1], Num(100))))
       ELSE Num(0)

\* ScoringEngine.calculateScore
calculateScore(algorithmConfig, coll, today) ==
    LET tot == SumTypes(algorithmConfig, coll, DOMAIN algorithmConfig.evidenceWeights,
                        <<Num(0), Num(0)>>, today)
        totalScore == tot[1]
        totalWeight == tot[2]
    IN IF Gt(totalWeight, Num(0))
       THEN MathMin(Num(100), MathMax(Num(0), Mul(Div(totalScore, totalWeight), Num(100))))
       ELSE Num(0)

\* categorizeScore with a fault: thresholds compared by > instead of >=, and
\* without the band below the last threshold
categorizeScore_Strict(algorithmConfig, score) ==
    IF Gt(score, algorithmConfig.thresholds.active) THEN "Active"
    ELSE IF Gt(score, algorithmConfig.thresholds.limited) THEN "Limited"
    ELSE IF Gt(score, algorithmConfig.thresholds.inactive) THEN "Inactive"
    ELSE "Not Used"

categorizeScore_NoFallthrough(algorithmConfig, score) ==
    IF Geq(score, algorithmConfig.thresholds.active) THEN "Active"
    ELSE IF Geq(score, algorithmConfig.thresholds.limited) THEN "Limited"
    ELSE "Inactive"

\* ScoringEngine.categorizeScore
categorizeScore(algorithmConfig, score) ==
    LET thresholds == algorithmConfig.thresholds
    IN IF Geq(score, thresholds.active) THEN "Active"
       ELSE IF Geq(score, thresholds.limited) THEN "Limited"
       ELSE IF Geq(score, thresholds.inactive) THEN "Inactive"
       ELSE "Not Used"

---------------------------------------------------------------------------
(* The org behind the connection.  An org state fixes what each call of   *)
(* the org client answers: describe(objectName), query(soql),             *)
(* tooling.query(soql) and metadata.list(types).                          *)

ObjectNames == {"Case", "Site"}

\* what describe(objectName) resolves to when it succeeds
ObjectInfo(objectName) ==
    IF objectName = "Case"
    THEN [label |-> "Case", keyPrefix |-> "500",
          fields |-> <<[name |-> "Status", type |-> "picklist", custom |-> FALSE],
                       [name |-> "Origin", type |-> "picklist", custom |-> FALSE],
                       [name |-> "Tier__c", type |-> "string", custom |-> TRUE]>>]
    ELSE [label |-> objectName, keyPrefix |-> "0DM",
          fields |-> <<[name |-> "Name", type |-> "string", custom |-> FALSE]>>]

\* describe: resolves, rejects with errorCode INVALID_TYPE, or rejects otherwise
DescribeOutcomes == {"ok", "INVALID_TYPE", "ERROR"}

\* the answers of the org: a query rejects (ok = FALSE) or resolves to
\* {totalSize} or {records}; metadata.list rejects, resolves to something
\* that is no array, or to records
Answers ==
    [count |-> {[ok |-> FALSE, totalSize |-> 0],
                [ok |-> TRUE, totalSize |-> 0],
                [ok |-> TRUE, totalSize |-> 15]},
     records |-> {[ok |-> FALSE, records |-> << >>],
                  [ok |-> TRUE, records |-> << >>],
                  [ok |-> TRUE, records |-> <<"a">>]},
     domains |-> {[ok |-> FALSE, records |-> << >>],
                  [ok |-> TRUE, records |-> <<"acme.my.salesforce.com">>],
                  [ok |-> TRUE, records |-> <<"acme.my.salesforce.com", "www.acme.com">>]},
     tooling |-> {[ok |-> FALSE, records |-> << >>],
                  [ok |-> TRUE, records |-> << >>],
                  [ok |-> TRUE, records |-> <<"CaseHandler">>],
                  [ok |-> TRUE,
                   records |-> <<"CaseHandler", "CaseUtil", "CaseBatch", "CaseTest">>]},
     metadata |-> {[ok |-> FALSE, array |-> FALSE, records |-> << >>],
                   [ok |-> TRUE, array |-> FALSE, records |-> << >>],
                   [ok |-> TRUE, array |-> TRUE, records |-> << >>],
                   [ok |-> TRUE, array |-> TRUE, records |-> <<"ServiceConsole", "Sales">>]}]

DefaultOrg ==
    [describe |-> [n \in ObjectNames |-> "ok"],
     total |-> [ok |-> TRUE, totalSize |-> 0],
     recent |-> [ok |-> TRUE, totalSize |-> 0],
     lastMod |-> [ok |-> TRUE, records |-> << >>],
     value |-> [ok |-> TRUE, records |-> << >>],
     domains |-> [ok |-> TRUE, records |-> <<"acme.my.salesforce.com">>],
     tooling |-> [ok |-> TRUE, records |-> << >>],
     metadata |-> [ok |-> TRUE, array |-> TRUE, records |-> << >>]]

\* the org states that differ in the answers to the calls named in `reads`
\* and in the description of the objects in `objects`
OrgStates(reads, objects) ==
    LET Pick(f, S) == IF f \in reads THEN S ELSE {DefaultOrg[f]}
    IN [describe : {d \in [ObjectNames -> DescribeOutcomes] :
                        \A n \in ObjectNames \ objects : d[n] = "ok"},
        total : Pick("total", Answers.count),
        recent : Pick("recent", Answers.count),
        lastMod : Pick("lastMod", Answers.records),
        value : Pick("value", Answers.records),
        domains : Pick("domains", Answers.domains),
        tooling : Pick("tooling", Answers.tooling),
        metadata : Pick("metadata", Answers.metadata)]

\* one org call, as logged: `m` is the index of the detection method of
\* checkFeature that issued it (0 outside checkFeature)
Call(api, arg, m) == [api |-> api, arg |-> arg, m |-> m]

\* the result of a helper: whether it threw (and the message), its value,
\* and the org calls it issued
Returned(val, cs) == [thrown |-> FALSE, msg |-> "", val |-> val, calls |-> cs]
Thrown(msg, cs) == [thrown |-> TRUE, msg |-> msg, val |-> Null, calls |-> cs]

query_answered(ans, cs) ==
    IF ans.ok THEN Returned(ans, cs) ELSE Thrown("query failed", cs)

\* connection.query(soql): the statement decides which answer of the org it gets
query(org, soql, m) ==
    query_answered(CASE soql.select = "COUNT()" /\ soql.where = "" -> org.total
                     [] soql.select = "COUNT()" -> org.recent
                     [] soql.select = "LastModifiedDate" -> org.lastMod
                     [] soql.from = "Domain" -> org.domains
                     [] OTHER -> org.value,
                   <<Call("query", soql, m)>>)

Soql(select, from, where) == [select |-> select, from |-> from, where |-> where]

\* new RegExp(pattern).test(s), for the patterns and names of this model
RegexTest(pattern, s) ==
    <<pattern, s>> \in {<<"Service", "ServiceConsole">>, <<"__c$", "Tier__c">>}

---------------------------------------------------------------------------
(* core/evidence-collector.js: utility methods.  An operator named         *)
(* <method>_<part> is the part of <method> that runs once the awaited      *)
(* call named by its last parameter has settled.                           *)

\* EvidenceCollector.describeObject
describeObject(org, objectName, m) ==
    CASE org.describe[objectName] = "ok" ->
           Returned(Some(ObjectInfo(objectName)), <<Call("describe", [object |-> objectName], m)>>)
      [] org.describe[objectName] = "INVALID_TYPE" ->
           Returned(Null, <<Call("describe", [object |-> objectName], m)>>)
      [] OTHER -> Thrown("describe failed", <<Call("describe", [object |-> objectName], m)>>)

getRecordCount_result(r) ==
    IF r.thrown THEN Returned([count |-> 0, error |-> r.msg], r.calls)
    ELSE Returned([count |-> r.val.totalSize], r.calls)

\* EvidenceCollector.getRecordCount
getRecordCount(org, objectName, m) ==
    getRecordCount_result(query(org, Soql("COUNT()", objectName, ""), m))

getLastModifiedDate_result(r) ==
    IF r.thrown THEN Returned([date |-> Null, error |-> r.msg], r.calls)
    ELSE Returned([date |-> IF Len(r.val.records) > 0 THEN Some(r.val.records[1]) ELSE Null],
                  r.calls)

\* EvidenceCollector.getLastModifiedDate
getLastModifiedDate(org, objectName, m) ==
    getLastModifiedDate_result(query(org, Soql("LastModifiedDate", objectName, ""), m))

\* EvidenceCollector.buildTimeConstraint, for the timeframes of this model:
\* last<N><Days|Months|Years> gives a constraint, anything else gives ''
buildTimeConstraint(timeframe) ==
    CASE timeframe = "last30Days" -> "CreatedDate = LAST_N_DAYS:30"
      [] timeframe = "last7Days" -> "CreatedDate = LAST_N_DAYS:7"
      [] OTHER -> ""

\* the elements of an array
Elems(seq) == {seq[i] : i \in 1..Len(seq)}

\* Array.prototype.find: the first element of seq among `hits`, or null
Find(seq, hits) ==
    IF \E i \in 1..Len(seq) : seq[i] \in hits
    THEN Some(seq[CHOOSE i \in 1..Len(seq) :
                      seq[i] \in hits /\ \A j \in 1..(i - 1) : seq[j] \notin hits])
    ELSE Null

checkMetadata_matched(method, cs, matchingRecords, minCount) ==
    Returned([detected |-> Len(matchingRecords) >= minCount,
              details |-> [metadata |-> method.path,
                           enabled |-> Len(matchingRecords) >= minCount,
                           count |-> Len(matchingRecords),
                           records |-> matchingRecords]], cs)

checkMetadata_listed(method, cs, ans) ==
    IF ~ans.ok
    THEN Returned([detected |-> FALSE,
                   details |-> [metadata |-> method.path, enabled |-> FALSE,
                                error |-> "metadata.list failed"]], cs)
    ELSE IF ~ans.array
    THEN Returned([detected |-> FALSE,
                   details |-> [metadata |-> method.path, enabled |-> FALSE,
                                error |-> "No metadata found"]], cs)
    ELSE checkMetadata_matched(method, cs,
             IF Has(method, "pattern")
             THEN SelectSeq(ans.records, LAMBDA r : RegexTest(method.pattern, r))
             ELSE ans.records,
             IF Has(method, "minCount") /\ method.minCount # 0 THEN method.minCount ELSE 1)

\* EvidenceCollector.checkMetadata
checkMetadata(org, method, m) ==
    checkMetadata_listed(method, <<Call("metadata.list", [type |-> method.path], m)>>,
                         org.metadata)

\* the fixed list of default Salesforce domain suffixes of checkCustomDomains
IsDefaultDomain(domain) == domain \in {"acme.my.salesforce.com"}

checkCustomDomains_filtered(r, customDomains) ==
    Returned([detected |-> Len(customDomains) > 0,
              details |-> [fieldName |-> "Domain",
                           count |-> Len(customDomains),
                           domains |-> customDomains,
                           allDomains |-> r.val.records]], r.calls)

checkCustomDomains_queried(r) ==
    IF r.thrown THEN r
    ELSE checkCustomDomains_filtered(r, SelectSeq(r.val.records,
                                                  LAMBDA d : ~IsDefaultDomain(d)))

\* EvidenceCollector.checkCustomDomains (throws when the query rejects)
checkCustomDomains(org, m) ==
    checkCustomDomains_queried(query(org, Soql("Id, Domain", "Domain", ""), m))

\* the catch of checkField around checkCustomDomains
checkField_domains(r) ==
    IF r.thrown THEN Returned([detected |-> FALSE, error |-> r.msg], r.calls) ELSE r

checkField_details(method, fieldInfo) ==
    IF fieldInfo = Null THEN EmptyObject
    ELSE IF Has(method, "value")
    THEN [fieldName |-> fieldInfo[1].name, fieldType |-> fieldInfo[1].type,
          fieldValue |-> method.value]
    ELSE [fieldName |-> fieldInfo[1].name, fieldType |-> fieldInfo[1].type]

checkField_valueQueried(cs, details, q) ==
    IF q.thrown THEN Returned([detected |-> FALSE, error |-> q.msg], cs \o q.calls)
    ELSE Returned([detected |-> Len(q.val.records) > 0, details |-> details], cs \o q.calls)

checkField_found(org, method, m, cs, fieldInfo) ==
    IF fieldInfo # Null /\ Has(method, "value")
    THEN checkField_valueQueried(cs, checkField_details(method, fieldInfo),
                                 query(org, Soql("Id", method.object, "value"), m))
    ELSE Returned([detected |-> fieldInfo # Null,
                   details |-> checkField_details(method, fieldInfo)], cs)

checkField_described(org, method, m, d) ==
    IF d.thrown THEN Returned([detected |-> FALSE, error |-> d.msg], d.calls)
    ELSE IF d.val = Null THEN Returned([detected |-> FALSE], d.calls)
    ELSE checkField_found(org, method, m, d.calls,
             IF Has(method, "name")
             THEN Find(d.val[1].fields,
                       {f \in Elems(d.val[1].fields) : f.name = method.name})
             ELSE IF Has(method, "pattern")
             THEN Find(d.val[1].fields,
                       {f \in Elems(d.val[1].fields) : RegexTest(method.pattern, f.name)})
             ELSE Null)

\* EvidenceCollector.checkField: its result has no `details` when the object
\* does not exist, and an `error` instead when something threw
checkField(org, method, m) ==
    IF Has(method, "name") /\ method.object = "Domain" /\ method.name = "Domain"
    THEN checkField_domains(checkCustomDomains(org, m))
    ELSE checkField_described(org, method, m, describeObject(org, method.object, m))

---------------------------------------------------------------------------
(* core/evidence-collector.js: the probes.  Each returns                   *)
(* [ev |-> the Evidence, calls |-> the org calls it issued].               *)

\* { key: source[f] }: the property is left out when source[f] is undefined
Opt(source, f, key) == IF Has(source, f) THEN [x \in {key} |-> source[f]] ELSE EmptyObject

\* options.flag, for a boolean option
Flag(options, f) == Has(options, f) /\ options[f]

checkObject_counted(objectName, options, today, d, cnt, lm) ==
    [ev |-> Evidence("objectPresence", objectName,
                     <<JBool(TRUE),
                       JObj([requiredFieldsPresent |->
                                IF Has(options, "requiredFields")
                                   /\ Len(options.requiredFields) > 0
                                THEN \A field \in Elems(options.requiredFields) :
                                         \E f \in Elems(d.val[1].fields) : f.name = field
                                ELSE TRUE,
                             recordCount |-> IF Flag(options, "checkRecordCount")
                                             THEN Some(cnt.val.count) ELSE Null,
                             lastModified |-> lm.val.date,
                             customFields |-> Len(SelectSeq(d.val[1].fields,
                                                            LAMBDA f : f.custom)),
                             details |-> [label |-> d.val[1].label,
                                          keyPrefix |-> d.val[1].keyPrefix]])>>,
                     today),
     calls |-> d.calls \o cnt.calls \o lm.calls]

checkObject_described(org, objectName, options, m, today, d) ==
    IF d.thrown
    THEN [ev |-> Evidence("objectPresence", objectName,
                          <<JBool(FALSE), JObj([error |-> d.msg])>>, today),
          calls |-> d.calls]
    ELSE IF d.val = Null
    THEN [ev |-> Evidence("objectPresence", objectName, <<JBool(FALSE)>>, today),
          calls |-> d.calls]
    ELSE checkObject_counted(objectName, options, today, d,
             IF Flag(options, "checkRecordCount") THEN getRecordCount(org, objectName, m)
             ELSE Returned([count |-> 0], << >>),
             IF Flag(options, "checkLastModified") THEN getLastModifiedDate(org, objectName, m)
             ELSE Returned([date |-> Null], << >>))

\* EvidenceCollector.checkObject
checkObject(org, objectName, options, m, today) ==
    checkObject_described(org, objectName, options, m, today,
                          describeObject(org, objectName, m))

\* options.threshold || dflt
ThresholdOr(options, dflt) ==
    IF TruthyNum(ToNumber(options, "threshold")) THEN options.threshold ELSE Num(dflt)

\* options.timeframe || dflt
TimeframeOr(options, dflt) == IF Has(options, "timeframe") THEN options.timeframe ELSE dflt

\* `${objectName} Usage`
UsageName(objectName) == IF objectName = "Case" THEN "Case Usage" ELSE "Site Usage"

checkObjectUsage_queried(objectName, options, today, r) ==
    IF r.thrown
    THEN [ev |-> Evidence("objectUsage", UsageName(objectName),
                          <<JBool(FALSE), JObj([error |-> r.msg])>>, today),
          calls |-> r.calls]
    ELSE [ev |-> Evidence("objectUsage", UsageName(objectName),
                          <<JBool(r.val.totalSize > 0),
                            JObj([count |-> Num(r.val.totalSize),
                                  threshold |-> ThresholdOr(options, 10),
                                  timeframe |-> TimeframeOr(options, "all")])>>,
                          today),
          calls |-> r.calls]

\* the WHERE clause checkObjectUsage builds
UsageWhere(options, timeConstraint) ==
    IF Has(options, "additionalWhere")
    THEN IF timeConstraint # "" THEN "time AND additional" ELSE "additional"
    ELSE timeConstraint

\* EvidenceCollector.checkObjectUsage
checkObjectUsage(org, objectName, options, today) ==
    checkObjectUsage_queried(objectName, options, today,
        query(org, Soql("COUNT()", objectName,
                        UsageWhere(options, IF Has(options, "timeframe")
                                            THEN buildTimeConstraint(options.timeframe)
                                            ELSE "")), 0))

\* the outcome of one detection method of checkFeature:
\* [detected |-> the value `detected` ends with, details, calls]
checkFeature_metadata(r) ==
    [detected |-> JBool(r.val.detected), details |-> r.val.details, calls |-> r.calls]

checkFeature_field(r) ==
    [detected |-> JBool(r.val.detected),
     details |-> IF Has(r.val, "details") THEN r.val.details ELSE EmptyObject,
     calls |-> r.calls]

checkFeature_object(method, r) ==
    [detected |-> IF Truthy(r.ev.detected) /\ Has(method, "minCount") /\ method.minCount # 0
                  THEN JBool((IF Has(r.ev.details, "recordCount")
                                 /\ r.ev.details.recordCount # Null
                              THEN r.ev.details.recordCount[1] ELSE 0) >= method.minCount)
                  ELSE r.ev.detected,
     details |-> r.ev.details,
     calls |-> r.calls]

\* the switch of checkFeature on method.type
DetectionMethod(org, method, m, today) ==
    CASE method.type = "metadata" -> checkFeature_metadata(checkMetadata(org, method, m))
      [] method.type = "field" -> checkFeature_field(checkField(org, method, m))
      [] method.type = "object" ->
           checkFeature_object(method, checkObject(org, method.name,
                                                   [checkRecordCount |-> TRUE], m, today))
      [] OTHER -> [detected |-> JBool(FALSE), details |-> EmptyObject, calls |-> << >>]

\* a loop that does not stop at the first method that detects: it goes on
\* through the later methods and the last one that detects wins
RECURSIVE checkFeature_NoShortCircuit(_, _, _, _, _, _, _)
checkFeature_NoShortCircuit(org, featureName, detectionMethods, i, cs, today, r) ==
    LET won == [ev |-> Evidence("featureConfiguration", featureName,
                                <<JBool(TRUE), JObj(r.details)>>, today),
                calls |-> cs \o r.calls, winner |-> i]
        lost == [ev |-> Evidence("featureConfiguration", featureName, <<JBool(FALSE)>>, today),
                 calls |-> cs \o r.calls, winner |-> 0]
    IN IF i >= Len(detectionMethods)
       THEN IF Truthy(r.detected) THEN won ELSE lost
       ELSE LET rest == checkFeature_NoShortCircuit(org, featureName, detectionMethods,
                            i + 1, cs \o r.calls, today,
                            DetectionMethod(org, detectionMethods[i + 1], i + 1, today))
            IN IF rest.winner = 0 /\ Truthy(r.detected)
               THEN [won EXCEPT !.calls = rest.calls]
               ELSE rest

\* one turn of the loop of EvidenceCollector.checkFeature: method i gave r,
\* `cs` are the calls issued before it; `winner` is the index of the method
\* the loop returned at (0: no method detected)
RECURSIVE checkFeature_step(_, _, _, _, _, _, _)
checkFeature_step(org, featureName, detectionMethods, i, cs, today, r) ==
    IF Truthy(r.detected)
    THEN [ev |-> Evidence("featureConfiguration", featureName,
                          <<JBool(TRUE), JObj(r.details)>>, today),
          calls |-> cs \o r.calls, winner |-> i]
    ELSE IF i >= Len(detectionMethods)
    THEN [ev |-> Evidence("featureConfiguration", featureName, <<JBool(FALSE)>>, today),
          calls |-> cs \o r.calls, winner |-> 0]
    ELSE checkFeature_step(org, featureName, detectionMethods, i + 1, cs \o r.calls, today,
                           DetectionMethod(org, detectionMethods[i + 1], i + 1, today))

\* EvidenceCollector.checkFeature; `source` is the object whose
\* detectionMethods property is passed: when it has none, the for-of over
\* undefined throws inside the try and the catch makes the Evidence
checkFeature(org, featureName, source, today) ==
    IF ~Has(source, "detectionMethods")
    THEN [ev |-> Evidence("featureConfiguration", featureName,
                          <<JBool(FALSE), JObj([error |-> "detectionMethods is not iterable"])>>,
                          today),
          calls |-> << >>, winner |-> 0]
    ELSE IF Len(source.detectionMethods) = 0
    THEN [ev |-> Evidence("featureConfiguration", featureName, <<JBool(FALSE)>>, today),
          calls |-> << >>, winner |-> 0]
    ELSE checkFeature_step(org, featureName, source.detectionMethods, 1, << >>, today,
                           DetectionMethod(org, source.detectionMethods[1], 1, today))

\* EvidenceCollector.checkApiUsage; simulatedUsage is Math.floor(Math.random() * 200)
checkApiUsage(name, options, simulatedUsage, today) ==
    [ev |-> Evidence("apiUsage", name,
                     <<JBool(simulatedUsage > 0),
                       JObj(Spread([count |-> Num(simulatedUsage),
                                    threshold |-> ThresholdOr(options, 100),
                                    timeframe |-> TimeframeOr(options, "last7Days")],
                                   Opt(options, "object", "object")))>>,
                     today),
     calls |-> << >>]

\* parseInt of the first two digits of base64(name + JSON.stringify(options)):
\* for the names of this model the digits lie in the encoding of the name
deterministicCount(name, options) ==
    CASE name = "Console Usage" -> 29
      [] name = "Report Views" -> 30
      [] OTHER -> 95

\* EvidenceCollector.checkUserActivity
checkUserActivity(name, options, today) ==
    IF Has(options, "type") /\ options.type = "eventLog"
    THEN [ev |-> Evidence("userActivity", name,
                          <<JBool(deterministicCount(name, options) > 0),
                            JObj(Spread(Spread([count |-> Num(deterministicCount(name, options)),
                                                threshold |-> ThresholdOr(options, 50),
                                                timeframe |-> TimeframeOr(options, "last30Days")],
                                               Opt(options, "eventType", "eventType")),
                                        Opt(options, "pattern", "pattern")))>>,
                          today),
          calls |-> << >>]
    ELSE [ev |-> Evidence("userActivity", name,
                          <<JBool(FALSE), JObj([error |-> "Unsupported activity type"])>>,
                          today),
          calls |-> << >>]

checkCodeReferences_queried(name, options, today, cs, ans) ==
    IF ~ans.ok
    THEN [ev |-> Evidence("codeReferences", name,
                          <<JBool(FALSE), JObj([error |-> "query failed"])>>, today),
          calls |-> cs]
    ELSE [ev |-> Evidence("codeReferences", name,
                          <<JBool(Len(ans.records) > 0),
                            JObj([count |-> Num(Len(ans.records)),
                                  matches |-> ans.records,
                                  pattern |-> IF Has(options, "pattern") THEN options.pattern
                                              ELSE options.triggerObject])>>,
                          today),
          calls |-> cs]

\* EvidenceCollector.checkCodeReferences; `rnd` holds the two Math.random()
\* draws of the 'lightning' branch: found (> 0.5) and count (floor(* 5))
checkCodeReferences(org, name, options, rnd, today) ==
    CASE Has(options, "type") /\ options.type = "apex" ->
           IF ~Has(options, "triggerObject") /\ ~Has(options, "pattern")
           THEN [ev |-> Evidence("codeReferences", name,
                                 <<JBool(FALSE), JObj([error |-> "No search criteria specified"])>>,
                                 today),
                 calls |-> << >>]
           ELSE checkCodeReferences_queried(name, options, today,
                    <<Call("tooling.query",
                           Soql("Id, Name, Body", "ApexClass",
                                IF Has(options, "triggerObject") THEN options.triggerObject
                                ELSE options.pattern), 0)>>,
                    org.tooling)
      [] Has(options, "type") /\ options.type = "lightning" ->
           [ev |-> Evidence("codeReferences", name,
                            <<JBool(rnd.found),
                              JObj(Spread([count |-> Num(rnd.count),
                                           matches |-> <<"Component1", "Component2">>],
                                          Opt(options, "pattern", "pattern")))>>,
                            today),
            calls |-> << >>]
      [] OTHER ->
           [ev |-> Evidence("codeReferences", name,
                            <<JBool(FALSE), JObj([error |-> "Unsupported code type"])>>,
                            today),
            calls |-> << >>]

---------------------------------------------------------------------------
(* ScoringEngine.determineEdition *)

\* the characters of the feature names and signals of this model
Chars(str) ==
    CASE str = "Service Console" ->
           <<"S", "e", "r", "v", "i", "c", "e", " ", "C", "o", "n", "s", "o", "l", "e">>
      [] str = "Connected Apps" ->
           <<"C", "o", "n", "n", "e", "c", "t", "e", "d", " ", "A", "p", "p", "s">>
      [] str = "Console" -> <<"C", "o", "n", "s", "o", "l", "e">>
      [] str = "Territory" -> <<"T", "e", "r", "r", "i", "t", "o", "r", "y">>
      [] str = "Web" -> <<"W", "e", "b">>
      [] str = "Plan A" -> <<"P", "l", "a", "n", " ", "A">>
      [] str = "Bulk" -> <<"B", "u", "l", "k">>
      [] OTHER -> <<str>>      \* a name of one character: "A", "B", "C", "D", "a"

\* String.prototype.includes: the signal occurs in f as a run of characters,
\* compared one by one (case-sensitive)
Includes(f, signal) ==
    \E at \in 0..(Len(Chars(f)) - Len(Chars(signal))) :
        \A i \in 1..Len(Chars(signal)) : Chars(f)[at + i] = Chars(signal)[i]

\* the loop of determineEdition with a fault: an edition needs more than half
\* of its signals; and the editions walked in declared order
RECURSIVE FirstMatchingEdition_Majority(_, _, _)
FirstMatchingEdition_Majority(editionSignals, detectedFeatures, i) ==
    IF i < 1 THEN Null
    ELSE LET signals == editionSignals[i].signals
             matchedSignals ==
                 SelectSeq(signals, LAMBDA signal :
                     \E f \in Elems(detectedFeatures) : Includes(f, signal))
         IN IF 2 * Len(matchedSignals) > Len(signals)
            THEN Some(editionSignals[i].edition)
            ELSE FirstMatchingEdition_Majority(editionSignals, detectedFeatures, i - 1)

RECURSIVE FirstMatchingEdition_Forward(_, _, _)
FirstMatchingEdition_Forward(editionSignals, detectedFeatures, i) ==
    IF i < 1 THEN Null
    ELSE LET at == Len(editionSignals) - i + 1
             signals == editionSignals[at].signals
             matchedSignals ==
                 SelectSeq(signals, LAMBDA signal :
                     \E f \in Elems(detectedFeatures) : Includes(f, signal))
         IN IF Len(matchedSignals) >= (Len(signals) + 1) \div 2
            THEN Some(editionSignals[at].edition)
            ELSE FirstMatchingEdition_Forward(editionSignals, detectedFeatures, i - 1)

\* editionSignals is the list of [edition, signals] in declared order
RECURSIVE FirstMatchingEdition(_, _, _)
FirstMatchingEdition(editionSignals, detectedFeatures, i) ==
    IF i < 1 THEN Null
    ELSE LET signals == editionSignals[i].signals
             matchedSignals ==
                 SelectSeq(signals, LAMBDA signal :
                     \E f \in Elems(detectedFeatures) : Includes(f, signal))
         IN \* Math.ceil(signals.length * 0.5)
            IF Len(matchedSignals) >= (Len(signals) + 1) \div 2
            THEN Some(editionSignals[i].edition)
            ELSE FirstMatchingEdition(editionSignals, detectedFeatures, i - 1)

determineEdition(productDefinition, coll) ==
    IF ~Has(productDefinition, "editionSignals") THEN "Unknown"
    ELSE LET found == SelectSeq(getEvidenceByType(coll, "featureConfiguration"),
                                LAMBDA e : Truthy(e.detected))
             detectedFeatures == [i \in 1..Len(found) |-> found[i].name]
             editions == productDefinition.editionSignals
             hit == FirstMatchingEdition(editions, detectedFeatures, Len(editions))
         IN IF hit # Null THEN hit[1]
            ELSE IF Len(editions) > 0 THEN editions[1].edition ELSE "Unknown"

---------------------------------------------------------------------------
(* The product definitions and the configuration *)

\* detection methods of feature, integration, activity, api and code items
Method ==
    [metadata |-> [type |-> "metadata", path |-> "CustomApplication", pattern |-> "Service"],
     connectedApp |-> [type |-> "metadata", path |-> "ConnectedApp", minCount |-> 1],
     field |-> [type |-> "field", object |-> "Case", name |-> "Origin", value |-> "Web"],
     fieldPattern |-> [type |-> "field", object |-> "Case", pattern |-> "__c$"],
     domain |-> [type |-> "field", object |-> "Domain", name |-> "Domain"],
     object |-> [type |-> "object", name |-> "Site"],
     objectMin |-> [type |-> "object", name |-> "Site", minCount |-> 1],
     unknown |-> [type |-> "setting", path |-> "Knowledge"],
     eventLog |-> [type |-> "eventLog", eventType |-> "LightningPageView",
                   timeframe |-> "last30Days", threshold |-> Num(50)],
     api |-> [object |-> "Case", timeframe |-> "last7Days", threshold |-> Num(100)],
     apex |-> [type |-> "apex", triggerObject |-> "Case"]]

\* indicator items; `case` is an 'object' item of weight 1.0 with
\* activityThreshold 10, `logins` an activity item without detectionMethods,
\* `dashboards` an item of a type analyze does not know
Item ==
    [case |-> [type |-> "object", name |-> "Case", weight |-> Num(1),
               activityThreshold |-> Num(10)],
     console |-> [type |-> "feature", name |-> "Service Console", weight |-> Num(1),
                  detectionMethods |-> <<Method.metadata, Method.objectMin>>],
     activity |-> [type |-> "activity", name |-> "Console Usage", weight |-> Frac(4, 5),
                   detectionMethods |-> <<Method.eventLog>>],
     logins |-> [type |-> "activity", name |-> "Logins", weight |-> Num(1)],
     api |-> [type |-> "api", name |-> "API Access", weight |-> Frac(1, 2),
              detectionMethods |-> <<Method.api>>],
     integration |-> [type |-> "integration", name |-> "Connected Apps",
                      weight |-> Frac(1, 2),
                      detectionMethods |-> <<Method.connectedApp>>],
     code |-> [type |-> "code", name |-> "Case Triggers", weight |-> Frac(1, 2),
               detectionMethods |-> <<Method.apex>>],
     dashboards |-> [type |-> "report", name |-> "Dashboards", weight |-> Num(1)]]

\* product definitions: `single` has the one item Item.case; `noMethods`
\* and `noIndicators` are malformed
Definition ==
    [single |->
        [name |-> "Service Cloud",
         indicators |-> <<[category |-> "Core Objects", items |-> <<Item.case>>]>>],
     mixed |->
        [name |-> "Sales Cloud",
         indicators |-> <<[category |-> "Features",
                           items |-> <<Item.console, Item.dashboards, Item.code>>],
                          [category |-> "Usage", items |-> <<Item.activity, Item.api>>]>>,
         editionSignals |-> <<[edition |-> "Professional", signals |-> <<"Web">>],
                              [edition |-> "Enterprise",
                               signals |-> <<"Console", "Territory">>]>>],
     noMethods |->
        [name |-> "Experience Cloud",
         indicators |-> <<[category |-> "Usage",
                           items |-> <<Item.integration, Item.logins>>]>>],
     noIndicators |-> [name |-> "Health Cloud"]]

\* config.products[key] (null when the file held null), and the definition
\* loadProductDefinition(key) finds in the default directory, if any
ProductEntries ==
    {[def |-> Some(Definition.single), file |-> Null],
     [def |-> Some(Definition.mixed), file |-> Null],
     [def |-> Some(Definition.noMethods), file |-> Null],
     [def |-> Some(Definition.noIndicators), file |-> Null],
     [def |-> Null, file |-> Null],
     [def |-> Null, file |-> Some(Definition.single)]}

AlgorithmDefault ==
    [evidenceWeights |-> [objectPresence |-> Num(1), featureConfiguration |-> Num(2),
                          codeReferences |-> Num(1), userActivity |-> Num(1),
                          apiUsage |-> Num(1)],
     decayFactors |-> [rate |-> Frac(1, 100)],
     thresholds |-> [active |-> Num(70), limited |-> Num(40), inactive |-> Num(10)]]

\* the object without property f
Without(o, f) == [x \in (DOMAIN o) \ {f} |-> o[x]]

\* analyzer-config.json: complete, or with one part missing
MainConfigs ==
    {[scoringEngine |-> [algorithms |-> [default |-> AlgorithmDefault]]],
     [scoringEngine |-> [algorithms |-> [default |-> Without(AlgorithmDefault, "decayFactors")]]],
     [scoringEngine |-> [algorithms |-> [default |-> Without(AlgorithmDefault, "evidenceWeights")]]],
     [scoringEngine |-> [algorithms |-> [default |-> Without(AlgorithmDefault, "thresholds")]]],
     [scoringEngine |-> [algorithms |-> EmptyObject]],
     EmptyObject}

\* the product keys are 1..n, in the order Object.keys gives them
ProductMaps == UNION {[1..n -> ProductEntries] : n \in 1..MaxProducts}

\* utils/config-loader.js validateConfig: the message it throws, or "" 
validateConfig(cfg) ==
    IF ~Has(cfg, "scoringEngine") \/ ~Has(cfg.scoringEngine, "algorithms")
    THEN "Invalid configuration: missing scoringEngine.algorithms"
    ELSE IF ~Has(cfg.scoringEngine.algorithms, "default")
    THEN "Invalid configuration: missing default algorithm"
    ELSE IF ~Has(cfg.scoringEngine.algorithms.default, "evidenceWeights")
    THEN "Invalid configuration: missing evidenceWeights"
    ELSE IF ~Has(cfg.scoringEngine.algorithms.default, "thresholds")
    THEN "Invalid configuration: missing thresholds"
    ELSE ""

---------------------------------------------------------------------------
(* analyzers/product-analyzer.js *)

\* the result of processing one indicator item: the Evidence (or the
\* TypeError thrown before any probe ran) and the org calls issued
Processed(r) == [thrown |-> FALSE, msg |-> "", ev |-> Some(r.ev), calls |-> r.calls]
ProcessThrew(msg) == [thrown |-> TRUE, msg |-> msg, ev |-> Null, calls |-> << >>]

processObjectIndicator_usage(o, u) ==
    Processed([ev |-> [o.ev EXCEPT
                         !.details =
                             Spread(@, [usage |->
                                 Spread(Spread([detected |-> u.ev.detected],
                                               Opt(u.ev.details, "count", "count")),
                                        Opt(u.ev.details, "threshold", "threshold"))])],
               calls |-> o.calls \o u.calls])

processObjectIndicator_checked(org, item, today, o) ==
    IF Truthy(o.ev.detected)
    THEN processObjectIndicator_usage(o,
             checkObjectUsage(org, item.name,
                              Spread(Spread(Opt(item, "weight", "weight"),
                                            Opt(item, "activityThreshold", "threshold")),
                                     [timeframe |-> "last30Days"]),
                              today))
    ELSE Processed(o)

\* ProductAnalyzer.processObjectIndicator
processObjectIndicator(org, item, today) ==
    processObjectIndicator_checked(org, item, today,
        checkObject(org, item.name,
                    Spread(Spread(Opt(item, "weight", "weight"),
                                  Opt(item, "requiredFields", "requiredFields")),
                           [checkRecordCount |-> TRUE, checkLastModified |-> TRUE]),
                    0, today))

\* ProductAnalyzer.processFeatureIndicator
processFeatureIndicator(org, item, today) ==
    Processed(checkFeature(org, item.name, item, today))

\* item.detectionMethods[0] can be read
HasFirstMethod(item) == Has(item, "detectionMethods") /\ Len(item.detectionMethods) > 0

\* ProductAnalyzer.processActivityIndicator
processActivityIndicator(item, today) ==
    IF ~HasFirstMethod(item)
    THEN ProcessThrew("Cannot read properties of undefined")
    ELSE LET method == item.detectionMethods[1]
         IN Processed(checkUserActivity(item.name,
                Spread(Opt(item, "weight", "weight"),
                       Props(method, {"type", "eventType", "pattern", "timeframe",
                                      "threshold"})), today))

\* ProductAnalyzer.processIntegrationIndicator
processIntegrationIndicator(org, item, simulatedUsage, today) ==
    IF item.type = "api"
    THEN IF ~HasFirstMethod(item)
         THEN ProcessThrew("Cannot read properties of undefined")
         ELSE LET method == item.detectionMethods[1]
              IN Processed(checkApiUsage(item.name,
                     Spread(Opt(item, "weight", "weight"),
                            Props(method, {"object", "timeframe", "threshold"})),
                     simulatedUsage, today))
    ELSE Processed(checkFeature(org, item.name, item, today))

\* ProductAnalyzer.processCodeIndicator
processCodeIndicator(org, item, rnd, today) ==
    IF ~HasFirstMethod(item)
    THEN ProcessThrew("Cannot read properties of undefined")
    ELSE LET method == item.detectionMethods[1]
         IN Processed(checkCodeReferences(org, item.name,
                Spread(Opt(item, "weight", "weight"),
                       Props(method, {"type", "triggerObject", "pattern"})), rnd, today))

KnownTypes == {"object", "feature", "activity", "integration", "api", "code"}

\* the switch of ProductAnalyzer.analyze on item.type, for a known type
processItem(org, item, rnd, today) ==
    CASE item.type = "object" -> processObjectIndicator(org, item, today)
      [] item.type = "feature" -> processFeatureIndicator(org, item, today)
      [] item.type = "activity" -> processActivityIndicator(item, today)
      [] item.type \in {"integration", "api"} ->
           processIntegrationIndicator(org, item, rnd.usage, today)
      [] item.type = "code" -> processCodeIndicator(org, item, rnd, today)

\* the indicator items of a definition in the order analyze walks them
RECURSIVE Flatten(_, _)
Flatten(indicators, i) ==
    IF i > Len(indicators) THEN << >>
    ELSE indicators[i].items \o Flatten(indicators, i + 1)

\* the item loop with a fault: an item of an unknown type ends the walk
Items_StopAtUnknown(def) ==
    LET all == Flatten(def.indicators, 1)
        unknown == {i \in 1..Len(all) : all[i].type \notin KnownTypes}
    IN SubSeq(all, 1, IF unknown = {} THEN Len(all)
                      ELSE (CHOOSE i \in unknown : \A j \in unknown : i <= j) - 1)

Items(def) == Flatten(def.indicators, 1)

\* ProductAnalyzer.summarizeEvidence
summarizeEvidence(def, coll) ==
    LET detected == getDetectedEvidence(coll)
    IN [totalItems |-> Len(coll.items),
        detectedItems |-> Len(detected),
        byCategory |->
            [c \in 1..Len(def.indicators) |->
                LET ofCategory ==
                        SelectSeq(detected, LAMBDA e :
                            \E it \in Elems(def.indicators[c].items) : it.name = e.name)
                IN [category |-> def.indicators[c].category,
                    items |-> [i \in 1..Len(ofCategory) |->
                                  Spread([name |-> ofCategory[i].name,
                                          details |-> ofCategory[i].details],
                                         Opt(ofCategory[i], "weight", "weight"))]]]]

\* ProductAnalyzer.generateFindings, for a definition without findingsMap
generateFindings(def, coll) ==
    LET detected == getDetectedEvidence(coll)
        OfType(ty) == SelectSeq(detected, LAMBDA e : e.type = ty)
        Findings(evs, text) == [i \in 1..Len(evs) |-> [name |-> evs[i].name, text |-> text]]
        coreObjects == Findings(OfType("objectPresence"), "is being used")
        features == Findings(OfType("featureConfiguration"), "is configured")
        highUserActivity ==
            SelectSeq(OfType("userActivity"), LAMBDA e :
                Gt(ToNumber(e.details, "count"), ToNumber(e.details, "threshold")))
        codeCustomizations == OfType("codeReferences")
    IN coreObjects \o features
       \o (IF Len(codeCustomizations) > 0
           THEN <<[name |-> def.name, text |-> "is extended with custom code"]>> ELSE << >>)
       \o (IF Len(highUserActivity) > 0
           THEN <<[name |-> def.name, text |-> "Active user engagement"]>> ELSE << >>)

\* the tail of ProductAnalyzer.analyze: score, category, edition, findings
\* and the AnalysisResult
AnalysisResult(algorithmConfig, def, coll, today) ==
    LET score == calculateScore(algorithmConfig, coll, today)
    IN [productName |-> def.name,
        probabilityScore |-> score,
        category |-> categorizeScore(algorithmConfig, score),
        edition |-> determineEdition(def, coll),
        evidenceSummary |-> summarizeEvidence(def, coll),
        significantFindings |-> generateFindings(def, coll)]

---------------------------------------------------------------------------
(* State of the analysis run *)

NoAnalyzer == [active |-> FALSE]
NoProbe == [op |-> "none"]
NoScoring == [op |-> "none"]
NotReturned == [state |-> "pending"]

\* Math.random() draws an item's probe can make
RandomDraws(item) ==
    [usage : IF item.type = "api" THEN {0, 150} ELSE {0},
     found : {FALSE},
     count : {0}]

\* the answers of the org a detection method reads, and the objects it
\* has described
MethodReads(method) ==
    CASE method.type = "metadata" -> {"metadata"}
      [] method.type = "field" /\ method.object = "Domain" -> {"domains"}
      [] method.type = "field" /\ Has(method, "value") -> {"value"}
      [] method.type = "object" -> {"total"}
      [] OTHER -> {}
MethodObjects(method) ==
    CASE method.type = "field" /\ method.object # "Domain" -> {method.object}
      [] method.type = "object" -> {method.name}
      [] OTHER -> {}

\* the org states that matter to checkFeature(name, source.detectionMethods)
FeatureOrgStates(source) ==
    IF ~Has(source, "detectionMethods") THEN {DefaultOrg}
    ELSE OrgStates(UNION {MethodReads(source.detectionMethods[i]) :
                              i \in 1..Len(source.detectionMethods)},
                   UNION {MethodObjects(source.detectionMethods[i]) :
                              i \in 1..Len(source.detectionMethods)})

\* the org states that matter to the probes of an item
ItemOrgStates(item) ==
    CASE item.type = "object" -> OrgStates({"total", "recent"}, {item.name})
      [] item.type \in {"feature", "integration"} -> FeatureOrgStates(item)
      [] item.type = "code" -> OrgStates({"tooling"}, {})
      [] OTHER -> {DefaultOrg}

AlgorithmConfig == config.scoringEngine.algorithms.default

Init ==
    /\ config \in {Spread(main, [products |-> pm]) : main \in MainConfigs, pm \in ProductMaps}
    /\ pc = "new"
    /\ k = 0
    /\ results = << >>
    /\ returned = NotReturned
    /\ analyzer = NoAnalyzer
    /\ calls = << >>
    /\ probe = NoProbe
    /\ scoring = NoScoring
    /\ now = 0

\* new AnalyzerManager(connection, configPath): loadConfig validates the
\* main configuration and throws on an invalid one
AnalyzerManagerNew ==
    /\ pc = "new"
    /\ IF validateConfig(config) = ""
       THEN /\ pc' = "idle"
            /\ returned' = returned
       ELSE /\ pc' = "threw"
            /\ returned' = [state |-> "rejected", error |-> validateConfig(config)]
    /\ UNCHANGED <<config, k, results, analyzer, calls, probe, scoring, now>>

\* analyzeAll(): results = {} and the loop over availableProducts begins
AnalyzeAllStart ==
    /\ pc = "idle"
    /\ pc' = "loop"
    /\ k' = 1
    /\ results' = << >>
    /\ UNCHANGED <<config, returned, analyzer, calls, probe, scoring, now>>

\* new ProductAnalyzer(connection, config, productKey) for the key at k: an
\* exception of the constructor leaves analyzeAll, which rejects
NewProductAnalyzer ==
    /\ pc = "loop"
    /\ ~analyzer.active
    /\ k <= Len(config.products)
    /\ LET entry == config.products[k]
           def == IF entry.def # Null THEN entry.def ELSE entry.file
       IN IF def = Null
          THEN /\ pc' = "threw"
               /\ returned' = [state |-> "rejected", error |-> "Product definition not found"]
               /\ analyzer' = analyzer
          ELSE /\ analyzer' = [active |-> TRUE, key |-> k, def |-> def[1],
                               evidence |-> EvidenceCollection(def[1].name), pos |-> 1]
               /\ UNCHANGED <<pc, returned>>
    /\ calls' = << >>
    /\ probe' = NoProbe
    /\ UNCHANGED <<config, k, results, scoring, now>>

\* what the item loop does with the outcome r of an item's handler
AnalyzeItem_processed(item, org, r) ==
    /\ calls' = r.calls
    /\ probe' = [op |-> "item", item |-> item, org |-> org, thrown |-> r.thrown, ev |-> r.ev]
    /\ IF r.thrown
       THEN /\ pc' = "threw"
            /\ returned' = [state |-> "rejected", error |-> r.msg]
            /\ analyzer' = analyzer
       ELSE /\ analyzer' = [analyzer EXCEPT !.pos = @ + 1,
                                            !.evidence = addEvidence(@, r.ev[1])]
            /\ UNCHANGED <<pc, returned>>

\* one turn of the item loop of ProductAnalyzer.analyze, with the probes the
\* item's handler awaits; a TypeError leaves analyze and analyzeAll
AnalyzeItem ==
    /\ pc = "loop"
    /\ analyzer.active
    /\ IF ~Has(analyzer.def, "indicators")
       THEN /\ pc' = "threw"
            /\ returned' = [state |-> "rejected", error |-> "indicators is not iterable"]
            /\ UNCHANGED <<analyzer, calls, probe>>
       ELSE /\ analyzer.pos <= Len(Items(analyzer.def))
            /\ LET item == Items(analyzer.def)[analyzer.pos]
               IN IF item.type \notin KnownTypes
                  THEN /\ analyzer' = [analyzer EXCEPT !.pos = @ + 1]
                       /\ calls' = << >>
                       /\ probe' = [op |-> "skip", item |-> item]
                       /\ UNCHANGED <<pc, returned>>
                  ELSE \E org \in ItemOrgStates(item), rnd \in RandomDraws(item) :
                         AnalyzeItem_processed(item, org, processItem(org, item, rnd, now))
    /\ UNCHANGED <<config, k, results, scoring, now>>

\* the tail of analyze with a fault: the result replaces the results so far
AnalyzeFinish_KeepsOne ==
    /\ pc = "loop"
    /\ analyzer.active
    /\ Has(analyzer.def, "indicators")
    /\ analyzer.pos > Len(Items(analyzer.def))
    /\ results' = <<[key |-> analyzer.key,
                     result |-> AnalysisResult(AlgorithmConfig, analyzer.def,
                                               analyzer.evidence, now),
                     evidence |-> analyzer.evidence]>>
    /\ analyzer' = NoAnalyzer
    /\ k' = k + 1
    /\ UNCHANGED <<config, pc, returned, calls, probe, scoring, now>>

\* the tail of ProductAnalyzer.analyze and results[productKey] = ...
AnalyzeFinish ==
    /\ pc = "loop"
    /\ analyzer.active
    /\ Has(analyzer.def, "indicators")
    /\ analyzer.pos > Len(Items(analyzer.def))
    /\ results' = Append(results,
                         [key |-> analyzer.key,
                          result |-> AnalysisResult(AlgorithmConfig, analyzer.def,
                                                    analyzer.evidence, now),
                          evidence |-> analyzer.evidence])
    /\ analyzer' = NoAnalyzer
    /\ k' = k + 1
    /\ UNCHANGED <<config, pc, returned, calls, probe, scoring, now>>

\* return results
AnalyzeAllReturn ==
    /\ pc = "loop"
    /\ ~analyzer.active
    /\ k > Len(config.products)
    /\ pc' = "done"
    /\ returned' = [state |-> "resolved", results |-> results]
    /\ UNCHANGED <<config, k, results, analyzer, calls, probe, scoring, now>>

Next ==
    \/ AnalyzerManagerNew
    \/ AnalyzeAllStart
    \/ NewProductAnalyzer
    \/ AnalyzeItem
    \/ AnalyzeFinish
    \/ AnalyzeAllReturn

Spec == Init /\ [][Next]_vars

---------------------------------------------------------------------------
(* The EvidenceCollector on its own: each probe called directly, with its  *)
(* arguments and the org's answers drawn from small sets.                  *)

MaxMethods == 2     \* detection methods per checkFeature call

\* the largest evidence collection given to calculateScore
MaxItems == 2

\* [0, 100] is cut into MaxSteps equal steps
MaxSteps == 4

\* the last day of the clock and of the timestamps given to applyTimeDecay
MaxDay == 4

\* the most editions a product definition declares
MaxEditions == 2

Methods ==
    {Method.metadata, Method.connectedApp, Method.field, Method.fieldPattern, Method.domain,
     Method.object, Method.objectMin, Method.unknown}

\* what checkFeature is handed as detectionMethods: undefined, or a list
FeatureSources ==
    {EmptyObject}
    \cup {[detectionMethods |-> ms] : ms \in UNION {[1..n -> Methods] : n \in 0..MaxMethods}}

\* the options each probe is called with
ProbeOptions ==
    [checkObject |->
        {EmptyObject,
         [checkRecordCount |-> TRUE],
         [checkRecordCount |-> TRUE, checkLastModified |-> TRUE],
         [weight |-> Frac(1, 2), requiredFields |-> <<"Name", "Domain__c">>]},
     checkObjectUsage |->
        {EmptyObject,
         [threshold |-> Num(10), timeframe |-> "last30Days"],
         [threshold |-> Num(0), timeframe |-> "last7Days",
          additionalWhere |-> "IsClosed = true"],
         [weight |-> Num(1), additionalWhere |-> "IsClosed = true"]},
     checkUserActivity |->
        {EmptyObject,
         [type |-> "eventLog"],
         [type |-> "eventLog", eventType |-> "LightningPageView", pattern |-> "Console",
          timeframe |-> "last7Days", threshold |-> Num(20)],
         [type |-> "report", threshold |-> Num(20)]},
     checkApiUsage |->
        {EmptyObject, [object |-> "Case", timeframe |-> "last30Days", threshold |-> Num(150)]},
     checkCodeReferences |->
        {EmptyObject,
         [type |-> "apex"],
         [type |-> "apex", triggerObject |-> "Case"],
         [type |-> "apex", pattern |-> "Case"],
         [type |-> "apex", triggerObject |-> "Case", pattern |-> "Handler"],
         [type |-> "lightning"],
         [type |-> "lightning", pattern |-> "c:case"],
         [type |-> "flow"]}]

CollectorInit ==
    /\ config = Spread([scoringEngine |-> [algorithms |-> [default |-> AlgorithmDefault]]],
                       [products |-> << >>])
    /\ pc = "collector"
    /\ k = 0
    /\ results = << >>
    /\ returned = NotReturned
    /\ analyzer = NoAnalyzer
    /\ calls = << >>
    /\ probe = NoProbe
    /\ scoring = NoScoring
    /\ now = 0

\* a probe called with `input` against `org` resolved to r
ProbeReturned(op, input, org, r) ==
    /\ probe' = [op |-> op, input |-> input, org |-> org, ev |-> r.ev,
                 winner |-> IF Has(r, "winner") THEN r.winner ELSE 0]
    /\ calls' = r.calls
    /\ pc' = "collected"
    /\ UNCHANGED <<config, k, results, returned, analyzer, scoring, now>>

CheckObject ==
    /\ pc = "collector"
    /\ \E objectName \in ObjectNames, options \in ProbeOptions.checkObject :
         \E org \in OrgStates({"total", "lastMod"}, {objectName}) :
            ProbeReturned("checkObject", [name |-> objectName, options |-> options], org,
                          checkObject(org, objectName, options, 0, now))

CheckObjectUsage ==
    /\ pc = "collector"
    /\ \E objectName \in ObjectNames, options \in ProbeOptions.checkObjectUsage :
         \E org \in OrgStates({"total", "recent"}, {}) :
            ProbeReturned("checkObjectUsage", [name |-> objectName, options |-> options], org,
                          checkObjectUsage(org, objectName, options, now))

CheckFeature ==
    /\ pc = "collector"
    /\ \E featureName \in {"Service Console"}, source \in FeatureSources :
         \E org \in FeatureOrgStates(source) :
            ProbeReturned("checkFeature", [name |-> featureName, source |-> source], org,
                          checkFeature(org, featureName, source, now))

CheckApiUsage ==
    /\ pc = "collector"
    /\ \E options \in ProbeOptions.checkApiUsage, simulatedUsage \in {0, 99, 199} :
         ProbeReturned("checkApiUsage", [name |-> "API Access", options |-> options],
                       DefaultOrg, checkApiUsage("API Access", options, simulatedUsage, now))

CheckUserActivity ==
    /\ pc = "collector"
    /\ \E name \in {"Console Usage", "Report Views", "Logins"},
          options \in ProbeOptions.checkUserActivity :
         ProbeReturned("checkUserActivity", [name |-> name, options |-> options],
                       DefaultOrg, checkUserActivity(name, options, now))

CheckCodeReferences ==
    /\ pc = "collector"
    /\ \E options \in ProbeOptions.checkCodeReferences, org \in OrgStates({"tooling"}, {}),
          rnd \in [usage : {0}, found : BOOLEAN, count : 0..4] :
         ProbeReturned("checkCodeReferences", [name |-> "Case Triggers", options |-> options],
                       org, checkCodeReferences(org, "Case Triggers", options, rnd, now))

\* the probe resolved a second time, to r
ProbeAgain_returned(r) ==
    /\ probe' = [op |-> probe.op, input |-> probe.input, org |-> probe.org, ev |-> r.ev,
                 winner |-> IF Has(r, "winner") THEN r.winner ELSE 0, before |-> probe]
    /\ calls' = r.calls
    /\ pc' = "recollected"
    /\ UNCHANGED <<config, k, results, returned, analyzer, scoring, now>>

\* the same probe run a second time, with the same arguments, against the
\* same answers of the org; Math.random() draws anew
ProbeAgain ==
    /\ pc = "collected"
    /\ \E simulatedUsage \in {0, 99, 199}, rnd \in [usage : {0}, found : BOOLEAN, count : 0..4] :
         ProbeAgain_returned(
            CASE probe.op = "checkObject" ->
                   checkObject(probe.org, probe.input.name, probe.input.options, 0, now)
              [] probe.op = "checkObjectUsage" ->
                   checkObjectUsage(probe.org, probe.input.name, probe.input.options, now)
              [] probe.op = "checkFeature" ->
                   checkFeature(probe.org, probe.input.name, probe.input.source, now)
              [] probe.op = "checkApiUsage" ->
                   checkApiUsage(probe.input.name, probe.input.options, simulatedUsage, now)
              [] probe.op = "checkUserActivity" ->
                   checkUserActivity(probe.input.name, probe.input.options, now)
              [] probe.op = "checkCodeReferences" ->
                   checkCodeReferences(probe.org, probe.input.name, probe.input.options,
                                       rnd, now))

CollectorNext ==
    \/ CheckObject
    \/ CheckObjectUsage
    \/ CheckFeature
    \/ CheckApiUsage
    \/ CheckUserActivity
    \/ CheckCodeReferences
    \/ ProbeAgain

CollectorSpec == CollectorInit /\ [][CollectorNext]_vars

---------------------------------------------------------------------------
(* The ScoringEngine on its own: each of its methods applied to inputs     *)
(* drawn from small sets.  A call records its arguments and its result in  *)
(* scoring; a second call of the same method, with one argument changed,   *)
(* keeps the record of the first in scoring.before.                        *)

EvidenceTypes ==
    {"objectPresence", "objectUsage", "featureConfiguration", "userActivity", "apiUsage",
     "codeReferences", "customEvidence"}

\* details of an evidence item: none, a count and/or a threshold, or matches.
\* A threshold is positive: every probe replaces a zero one by its default.
ScoringDetails ==
    {EmptyObject}
    \cup {[count |-> Num(c)] : c \in 0..MaxCount}
    \cup {[threshold |-> Num(t)] : t \in 1..MaxThreshold}
    \cup {[count |-> Num(c), threshold |-> Num(t)] : c \in 0..MaxCount, t \in 1..MaxThreshold}
    \cup {[count |-> Num(n), matches |-> [i \in 1..n |-> "Component"]] : n \in 0..4}

ScoringItems ==
    [detected : {Undefined, JBool(FALSE), JBool(TRUE), JObj([count |-> Num(1)])},
     details : ScoringDetails]

ScoringInit ==
    /\ config = Spread([scoringEngine |-> [algorithms |-> [default |-> AlgorithmDefault]]],
                       [products |-> << >>])
    /\ pc = "scoring"
    /\ k = 0
    /\ results = << >>
    /\ returned = NotReturned
    /\ analyzer = NoAnalyzer
    /\ calls = << >>
    /\ probe = NoProbe
    /\ scoring = NoScoring
    /\ now = 0

CalculateItemScore ==
    /\ pc = "scoring"
    /\ \E item \in ScoringItems, type \in EvidenceTypes :
         scoring' = [op |-> "calculateItemScore", item |-> item, type |-> type,
                     score |-> calculateItemScore(item, type), before |-> scoring]
    /\ pc' = "scored"
    /\ UNCHANGED <<config, k, results, returned, analyzer, calls, probe, now>>

\* the same item scored again with a larger count
CalculateItemScoreAgain ==
    /\ pc = "scored"
    /\ scoring.op = "calculateItemScore"
    /\ Has(scoring.item.details, "count")
    /\ ~Has(scoring.item.details, "matches")
    /\ \E c \in 0..MaxCount :
         /\ Gt(Num(c), scoring.item.details.count)
         /\ LET item == [scoring.item EXCEPT !.details.count = Num(c)]
            IN scoring' = [op |-> "calculateItemScore", item |-> item, type |-> scoring.type,
                           score |-> calculateItemScore(item, scoring.type),
                           before |-> scoring]
    /\ pc' = "rescored"
    /\ UNCHANGED <<config, k, results, returned, analyzer, calls, probe, now>>

\* evidence for calculateScore: presence and usage items, detected or not,
\* without a weight (as the constructor leaves them) or with one
ScoringEvidence ==
    {Spread(Evidence(type, "Case",
                     <<Undefined, JBool(detected),
                       JObj(IF type = "objectUsage"
                            THEN [count |-> Num(1), threshold |-> Num(2)]
                            ELSE EmptyObject)>>, 0), weight) :
        type \in {"objectPresence", "objectUsage"}, detected \in BOOLEAN,
        weight \in {EmptyObject} \cup {[weight |-> Num(w)] : w \in 0..2}}

\* the collections of at most n items of ScoringEvidence
RECURSIVE ScoringCollections(_)
ScoringCollections(n) ==
    IF n = 0 THEN {EvidenceCollection("Sales Cloud")}
    ELSE ScoringCollections(n - 1)
         \cup {addEvidence(coll, evidence) :
                 coll \in ScoringCollections(n - 1), evidence \in ScoringEvidence}

\* algorithm configurations: the default one, one whose type weights are all
\* 0, and one whose lowest threshold is 0
ScoringConfigs ==
    {AlgorithmDefault,
     [AlgorithmDefault EXCEPT
        !.evidenceWeights = [ty \in DOMAIN @ |-> Num(0)]],
     [AlgorithmDefault EXCEPT
        !.thresholds = [active |-> Num(50), limited |-> Num(25), inactive |-> Num(0)]]}

\* calculateScore on a collection, and the category of the score
CalculateScore ==
    /\ pc = "scoring"
    /\ \E algorithmConfig \in ScoringConfigs, coll \in ScoringCollections(MaxItems) :
         scoring' = [op |-> "calculateScore", algorithmConfig |-> algorithmConfig,
                     coll |-> coll,
                     score |-> calculateScore(algorithmConfig, coll, now),
                     category |-> categorizeScore(algorithmConfig,
                                                  calculateScore(algorithmConfig, coll, now)),
                     before |-> scoring]
    /\ pc' = "scored"
    /\ UNCHANGED <<config, k, results, returned, analyzer, calls, probe, now>>

\* coll with every item weight multiplied by c
ScaledItems(coll, c) ==
    LET Scaled(items) == [i \in 1..Len(items) |->
                            IF Has(items[i], "weight")
                            THEN [items[i] EXCEPT !.weight = Mul(@, c)]
                            ELSE items[i]]
    IN [coll EXCEPT !.items = Scaled(@),
                    !.categorizedItems = [ty \in DOMAIN @ |-> Scaled(@[ty])]]

\* the same collection scored again, with every item weight or every type
\* weight multiplied by the same positive constant
CalculateScoreAgain ==
    /\ pc = "scored"
    /\ scoring.op = "calculateScore"
    /\ \E c \in {Num(2), Frac(1, 2)}, scaleItems \in BOOLEAN :
         LET algorithmConfig ==
                 IF scaleItems THEN scoring.algorithmConfig
                 ELSE [scoring.algorithmConfig EXCEPT
                         !.evidenceWeights = [ty \in DOMAIN @ |-> Mul(@[ty], c)]]
             coll == IF scaleItems THEN ScaledItems(scoring.coll, c) ELSE scoring.coll
         IN scoring' = [op |-> "calculateScore", algorithmConfig |-> algorithmConfig,
                        coll |-> coll,
                        score |-> calculateScore(algorithmConfig, coll, now),
                        category |-> categorizeScore(algorithmConfig,
                                                     calculateScore(algorithmConfig, coll, now)),
                        before |-> scoring]
    /\ pc' = "rescored"
    /\ UNCHANGED <<config, k, results, returned, analyzer, calls, probe, now>>

\* a point of [0, 100]: the scores and thresholds given to categorizeScore
ScorePoint(i) == Frac(100 * i, MaxSteps)

\* categorizeScore on a score of [0, 100], under thresholds of [0, 100] with
\* active >= limited >= inactive
CategorizeScore ==
    /\ pc = "scoring"
    /\ \E i, active, limited, inactive \in 0..MaxSteps :
         /\ active >= limited
         /\ limited >= inactive
         /\ LET algorithmConfig ==
                    [AlgorithmDefault EXCEPT
                       !.thresholds = [active |-> ScorePoint(active),
                                       limited |-> ScorePoint(limited),
                                       inactive |-> ScorePoint(inactive)]]
            IN scoring' = [op |-> "categorizeScore", algorithmConfig |-> algorithmConfig,
                           score |-> ScorePoint(i),
                           category |-> categorizeScore(algorithmConfig, ScorePoint(i)),
                           before |-> scoring]
    /\ pc' = "scored"
    /\ UNCHANGED <<config, k, results, returned, analyzer, calls, probe, now>>

\* algorithm configurations for applyTimeDecay: the default rate of 1/100 a
\* day, no decayFactors, decayFactors without a rate or with a rate of 0, and
\* faster rates
DecayConfigs ==
    {AlgorithmDefault, Without(AlgorithmDefault, "decayFactors")}
    \cup {[AlgorithmDefault EXCEPT !.decayFactors = decayFactors] :
            decayFactors \in {EmptyObject, [rate |-> Num(0)], [rate |-> Frac(1, 2)],
                              [rate |-> Frac(1, 3)]}}

\* applyTimeDecay on a score of [0, 1], `today` being the day new Date() gives
ApplyTimeDecay ==
    /\ pc = "scoring"
    /\ \E algorithmConfig \in DecayConfigs, score \in {Num(0), Frac(1, 2), Num(1)},
          timestamp \in {Undefined} \cup {Date(day) : day \in 0..MaxDay},
          today \in 0..MaxDay :
         /\ scoring' = [op |-> "applyTimeDecay", algorithmConfig |-> algorithmConfig,
                        score |-> score, timestamp |-> timestamp, today |-> today,
                        result |-> applyTimeDecay(algorithmConfig, score, timestamp, today),
                        before |-> scoring]
         /\ now' = today
    /\ pc' = "scored"
    /\ UNCHANGED <<config, k, results, returned, analyzer, calls, probe>>

\* the same score and timestamp decayed again on a later day
ApplyTimeDecayAgain ==
    /\ pc = "scored"
    /\ scoring.op = "applyTimeDecay"
    /\ \E today \in (now + 1)..MaxDay :
         /\ scoring' = [scoring EXCEPT
                          !.today = today,
                          !.result = applyTimeDecay(scoring.algorithmConfig, scoring.score,
                                                    scoring.timestamp, today),
                          !.before = scoring]
         /\ now' = today
    /\ pc' = "rescored"
    /\ UNCHANGED <<config, k, results, returned, analyzer, calls, probe>>

\* the editions a product definition can declare, with their signals
EditionEntries ==
    {[edition |-> "Starter", signals |-> <<"D">>],
     [edition |-> "Professional", signals |-> <<"A">>],
     [edition |-> "Enterprise", signals |-> <<"A", "B", "C", "D">>],
     [edition |-> "Unlimited", signals |-> <<"A", "B", "C">>],
     [edition |-> "Developer", signals |-> << >>]}

\* the editionSignals of at most n editions, as the list of its entries in
\* declared order; an object has each key once
RECURSIVE EditionSignals(_)
EditionSignals(n) ==
    IF n = 0 THEN {<< >>}
    ELSE EditionSignals(n - 1)
         \cup {editions \in {Append(e, entry) : e \in EditionSignals(n - 1),
                                                   entry \in EditionEntries} :
                 \A i, j \in 1..Len(editions) :
                     editions[i].edition = editions[j].edition => i = j}

\* the names of the feature evidence, in the order it was collected
FeatureNames == <<"A", "a", "Plan A", "B", "Bulk", "C">>

\* the evidence of a run: an object named "D", and the first i features,
\* detected if in `detected`
RECURSIVE FeatureEvidence(_, _)
FeatureEvidence(detected, i) ==
    IF i = 0
    THEN addEvidence(EvidenceCollection("Sales Cloud"),
                     Evidence("objectPresence", "D", <<Undefined, JBool(TRUE)>>, 0))
    ELSE addEvidence(FeatureEvidence(detected, i - 1),
                     Evidence("featureConfiguration", FeatureNames[i],
                              <<Undefined, JBool(FeatureNames[i] \in detected)>>, 0))

\* determineEdition on a product definition and the evidence of a run
DetermineEdition ==
    /\ pc = "scoring"
    /\ \E productDefinition \in
              {[name |-> "Sales Cloud"]}
              \cup {[name |-> "Sales Cloud", editionSignals |-> editions] :
                      editions \in EditionSignals(MaxEditions)},
          detected \in SUBSET Elems(FeatureNames) :
         scoring' = [op |-> "determineEdition", productDefinition |-> productDefinition,
                     detected |-> detected,
                     edition |-> determineEdition(productDefinition,
                                                  FeatureEvidence(detected, Len(FeatureNames))),
                     before |-> scoring]
    /\ pc' = "scored"
    /\ UNCHANGED <<config, k, results, returned, analyzer, calls, probe, now>>

ScoringNext ==
    \/ CalculateItemScore
    \/ CalculateItemScoreAgain
    \/ CalculateScore
    \/ CalculateScoreAgain
    \/ CategorizeScore
    \/ ApplyTimeDecay
    \/ ApplyTimeDecayAgain
    \/ DetermineEdition

ScoringSpec == ScoringInit /\ [][ScoringNext]_vars

---------------------------------------------------------------------------
(* Properties of the scoring engine (ScoringSpec) *)

\* C1: for every evidence item whose detected flag is false (or is not
\* there), calculateItemScore returns exactly 0, whatever the evidence type
\* and whatever the details hold.
C1_NotDetectedScoresZero ==
    (scoring.op = "calculateItemScore" /\ ~Truthy(scoring.item.detected))
        => scoring.score = Num(0)

\* an item that is not detected although its count is twice its threshold
C1_Witness ==
    /\ scoring.op = "calculateItemScore"
    /\ scoring.item.detected = JBool(FALSE)
    /\ scoring.type = "objectUsage"
    /\ scoring.item.details = [count |-> Num(6), threshold |-> Num(3)]
    /\ scoring.score = Num(0)

---------------------------------------------------------------------------
(* Properties of the collector's probes (CollectorSpec) *)

\* whether the org call logged as c rejected
CallThrew(org, c) ==
    CASE c.api = "describe" -> org.describe[c.arg.object] # "ok"
      [] c.api = "query" -> query(org, c.arg, c.m).thrown
      [] c.api = "tooling.query" -> ~org.tooling.ok
      [] c.api = "metadata.list" -> ~org.metadata.ok

\* C4: every probe returns one Evidence and never throws; whenever an org
\* call of the probe threw, the Evidence has detected = false and
\* details.error set.
C4_FailureIsNotDetectedWithError ==
    (probe.op \in {"checkObject", "checkObjectUsage", "checkFeature", "checkApiUsage",
                   "checkUserActivity", "checkCodeReferences"}
     /\ \E i \in 1..Len(calls) : CallThrew(probe.org, calls[i]))
        => (probe.ev.detected = JBool(FALSE) /\ Has(probe.ev.details, "error"))

\* C5: every Evidence of the collector that is not detected (detected is
\* false, or is not there) carries a reason, details.error or
\* details.message.
C5_NotDetectedCarriesReason ==
    (probe.op \in {"checkObject", "checkObjectUsage", "checkFeature", "checkApiUsage",
                   "checkUserActivity", "checkCodeReferences"}
     /\ ~Truthy(probe.ev.detected))
        => (Has(probe.ev.details, "error") \/ Has(probe.ev.details, "message"))

\* the outcome of method i of a checkFeature call, run on its own
MethodAlone(i) ==
    DetectionMethod(probe.org, probe.input.source.detectionMethods[i], i, now)

\* the first method of a checkFeature call that detects when run on its own;
\* 0 when none does
FirstDetecting ==
    LET n == Len(probe.input.source.detectionMethods)
    IN IF \E i \in 1..n : Truthy(MethodAlone(i).detected)
       THEN CHOOSE i \in 1..n :
                /\ Truthy(MethodAlone(i).detected)
                /\ \A j \in 1..(i - 1) : ~Truthy(MethodAlone(j).detected)
       ELSE 0

\* C7: checkFeature tries its detection methods in declaration order and
\* stops at the first that detects: the calls issued are those of methods
\* 1..i in that order, none for a method after i, and the Evidence is made
\* from method i's details although a later method would detect too.
C7_FirstMatchWins ==
    (probe.op = "checkFeature" /\ Has(probe.input.source, "detectionMethods")
     /\ Len(probe.input.source.detectionMethods) > 0)
        => LET n == Len(probe.input.source.detectionMethods)
               first == FirstDetecting
               last == IF first = 0 THEN n ELSE first
           IN /\ probe.winner = first
              /\ \A c \in 1..Len(calls) : calls[c].m \in 1..last
              /\ \A c, d \in 1..Len(calls) : c < d => calls[c].m <= calls[d].m
              /\ \A j \in 1..last :
                    SelectSeq(calls, LAMBDA c : c.m = j) = MethodAlone(j).calls
              /\ first # 0 => JObj(MethodAlone(first).details)
                                  \in {probe.ev.detected, JObj(probe.ev.details)}

\* two methods that both detect, with different details, the second one
\* through org calls: the first was taken and the second was never tried
C7_Witness ==
    /\ probe.op = "checkFeature"
    /\ Has(probe.input.source, "detectionMethods")
    /\ Len(probe.input.source.detectionMethods) = 2
    /\ Truthy(MethodAlone(1).detected)
    /\ Truthy(MethodAlone(2).detected)
    /\ MethodAlone(1).details # MethodAlone(2).details
    /\ MethodAlone(2).calls # << >>
    /\ probe.winner = 1
    /\ calls = MethodAlone(1).calls

\* C8: checkFeature with two methods, the first failing and the second
\* detecting, returns detected = true with the details of the second method
\* only.
C8_SecondMethodDetails ==
    (/\ probe.op = "checkFeature"
     /\ Has(probe.input.source, "detectionMethods")
     /\ Len(probe.input.source.detectionMethods) = 2
     /\ ~Truthy(MethodAlone(1).detected)
     /\ Truthy(MethodAlone(2).detected))
        => /\ probe.ev.detected = JBool(TRUE)
           /\ probe.ev.details = MethodAlone(2).details

---------------------------------------------------------------------------
(* Properties of an analysis run (Spec) *)

\* the result analyze returned last
LastResult == results[Len(results)]

\* analyze has just returned the result of a definition with the one item
\* Item.case, whose describe succeeded and whose 30-day count query gave 15
SingleObjectScenario ==
    /\ Len(results) > 0
    /\ probe.op = "item"
    /\ probe.item = Item.case
    /\ ~probe.thrown
    /\ probe.org.describe["Case"] = "ok"
    /\ probe.org.recent = [ok |-> TRUE, totalSize |-> 15]
    /\ LastResult.evidence.items = <<probe.ev[1]>>

\* C2: in that scenario the one evidence is objectPresence, detected, merged
\* with usage {count: 15, threshold: 10}; its item score is 0.75 and the
\* final score is 75.
C2_SingleObjectScores75 ==
    SingleObjectScenario
        => LET e == probe.ev[1]
           IN /\ e.type = "objectPresence"
              /\ e.detected = JBool(TRUE)
              /\ Has(e.details, "usage")
              /\ Has(e.details.usage, "count") /\ e.details.usage.count = Num(15)
              /\ Has(e.details.usage, "threshold") /\ e.details.usage.threshold = Num(10)
              /\ calculateItemScore(e, e.type) = Frac(3, 4)
              /\ LastResult.result.probabilityScore = Num(75)

\* C3: every Evidence returned for an indicator item carries the item's
\* weight as a number, and a result with a detected item of positive weight
\* has a score above 0.
C3_EvidenceCarriesWeight ==
    /\ (probe.op = "item" /\ ~probe.thrown)
          => (Has(probe.ev[1], "weight") /\ probe.ev[1].weight = probe.item.weight)
    /\ \A r \in 1..Len(results) :
          (\E e \in 1..Len(results[r].evidence.items) :
               Truthy(results[r].evidence.items[e].detected))
             => Gt(results[r].result.probabilityScore, Num(0))

\* whether analysing the product at `key` fails on its configuration: no
\* definition, no indicators, or an item whose detectionMethods are missing
DefinitionOf(key) ==
    IF config.products[key].def # Null THEN config.products[key].def
    ELSE config.products[key].file
Malformed(key) ==
    \/ DefinitionOf(key) = Null
    \/ ~Has(DefinitionOf(key)[1], "indicators")
    \/ \E i \in 1..Len(Items(DefinitionOf(key)[1])) :
          /\ Items(DefinitionOf(key)[1])[i].type \in {"activity", "api", "code"}
          /\ ~HasFirstMethod(Items(DefinitionOf(key)[1])[i])

\* C6: analyzeAll of a manager that was constructed does not fail on a
\* product with a configuration error: it comes to its end and returns the
\* results of every other product.
C6_FailureIsolatedToProduct ==
    (validateConfig(config) = "" /\ pc \in {"done", "threw"})
        => /\ returned.state = "resolved"
           /\ \A key \in 1..Len(config.products) :
                 ~Malformed(key)
                    => \E r \in 1..Len(returned.results) : returned.results[r].key = key

\* C9: for an 'object' item whose presence probe did not find the object
\* (describe did not succeed), no usage query is issued.
C9_NoUsageProbeWithoutPresence ==
    (/\ probe.op = "item"
     /\ probe.item.type = "object"
     /\ probe.org.describe[probe.item.name] # "ok")
        => \A c \in 1..Len(calls) :
              ~(calls[c].api = "query" /\ calls[c].arg.where # "")

\* a detected usage item with a count and a positive threshold
UsageItemScored(call) ==
    /\ call.op = "calculateItemScore"
    /\ call.type \in UsageTypes
    /\ Truthy(call.item.detected)
    /\ Has(call.item.details, "count")
    /\ Has(call.item.details, "threshold")
    /\ Gt(call.item.details.threshold, Num(0))

\* C11: for detected usage evidence with a threshold above 0, every count
\* with 0 <= count < threshold scores count/threshold*0.5, and the score
\* does not go down when the count goes up
C11_UsageScoreLinearAndMonotone ==
    /\ UsageItemScored(scoring) /\ Gt(scoring.item.details.threshold, scoring.item.details.count)
        => scoring.score = Mul(Div(scoring.item.details.count,
                                   scoring.item.details.threshold), Frac(1, 2))
    /\ UsageItemScored(scoring) /\ pc = "rescored"
        => Geq(scoring.score, scoring.before.score)

\* C12: for detected usage evidence, an item without a count scores 0.5
\* whatever its threshold, and an item with a count but without a threshold
\* scores 1.0
C12_MissingCountOrThreshold ==
    scoring.op = "calculateItemScore" /\ scoring.type \in UsageTypes
        /\ Truthy(scoring.item.detected)
    => /\ ~Has(scoring.item.details, "count") => scoring.score = Frac(1, 2)
       /\ Has(scoring.item.details, "count") /\ ~Has(scoring.item.details, "threshold")
            => scoring.score = Num(1)

\* totalWeight of calculateScore: the sum of item.weight * typeWeight
TotalWeight(call) ==
    SumTypes(call.algorithmConfig, call.coll, DOMAIN call.algorithmConfig.evidenceWeights,
             <<Num(0), Num(0)>>, now)[2]

\* C13: calculateScore returns a number between 0 and 100, never NaN, and
\* exactly 0 when totalWeight is 0 or is not a positive number
C13_ScoreInRange ==
    scoring.op = "calculateScore"
    => /\ ~IsNaN(scoring.score)
       /\ Geq(scoring.score, Num(0))
       /\ Geq(Num(100), scoring.score)
       /\ ~Gt(TotalWeight(scoring), Num(0)) => scoring.score = Num(0)

\* two items, one detected with a positive weight and one without a weight:
\* totalWeight is NaN
C13_Witness ==
    /\ scoring.op = "calculateScore"
    /\ pc = "scored"
    /\ Len(scoring.coll.items) = 2
    /\ IsNaN(TotalWeight(scoring))
    /\ \E i \in 1..2 : Has(scoring.coll.items[i], "weight")
                          /\ Gt(scoring.coll.items[i].weight, Num(0))
                          /\ Truthy(scoring.coll.items[i].detected)

\* C14: with an empty evidence collection calculateScore returns 0, and the
\* category of that score is 'Not Used'
C14_EmptyEvidenceNotUsed ==
    scoring.op = "calculateScore" /\ scoring.coll.items = << >>
    => scoring.score = Num(0) /\ scoring.category = "Not Used"

\* C14, amended: with an empty evidence collection calculateScore returns 0;
\* the category of that score is 'Not Used' when the inactive threshold is
\* above 0, and 'Inactive' (or a higher band) when that threshold is 0
C14_EmptyEvidenceScoresZero ==
    scoring.op = "calculateScore" /\ scoring.coll.items = << >>
    => /\ scoring.score = Num(0)
       /\ scoring.category = "Not Used"
            <=> Gt(scoring.algorithmConfig.thresholds.inactive, Num(0))

\* an empty collection scored under the default thresholds
C14_Witness ==
    /\ scoring.op = "calculateScore"
    /\ scoring.coll.items = << >>
    /\ scoring.algorithmConfig = AlgorithmDefault
    /\ scoring.category = "Not Used"

\* C15: when totalWeight is positive, multiplying every item weight, or
\* every type weight, by the same positive constant leaves the result of
\* calculateScore unchanged
C15_ScaleInvariant ==
    scoring.op = "calculateScore" /\ pc = "rescored"
        /\ Gt(TotalWeight(scoring.before), Num(0))
    => scoring.score = scoring.before.score

\* two weighted items, rescaled, with a score strictly between 0 and 100
C15_Witness ==
    /\ scoring.op = "calculateScore"
    /\ pc = "rescored"
    /\ Gt(TotalWeight(scoring.before), Num(0))
    /\ Len(scoring.coll.items) = 2
    /\ scoring.coll # scoring.before.coll
    /\ Gt(scoring.score, Num(0))
    /\ Gt(Num(100), scoring.score)

\* C16: with thresholds active >= limited >= inactive, categorizeScore cuts
\* [0, 100] into four contiguous bands bounded by the thresholds, and a score
\* equal to a threshold belongs to the band above it
C16_FourBands ==
    scoring.op = "categorizeScore"
    => LET t == scoring.algorithmConfig.thresholds
           s == scoring.score
       IN /\ scoring.category \in {"Active", "Limited", "Inactive", "Not Used"}
          /\ scoring.category = "Active" <=> Geq(s, t.active)
          /\ scoring.category = "Limited" <=> Geq(s, t.limited) /\ Gt(t.active, s)
          /\ scoring.category = "Inactive" <=> Geq(s, t.inactive) /\ Gt(t.limited, s)
          /\ scoring.category = "Not Used" <=> Gt(t.inactive, s)

\* a score equal to the limited threshold, between two other thresholds
C16_Witness ==
    /\ scoring.op = "categorizeScore"
    /\ scoring.score = scoring.algorithmConfig.thresholds.limited
    /\ Gt(scoring.algorithmConfig.thresholds.active, scoring.score)
    /\ Gt(scoring.score, scoring.algorithmConfig.thresholds.inactive)
    /\ Gt(scoring.algorithmConfig.thresholds.inactive, Num(0))
    /\ scoring.category = "Limited"

\* a call of applyTimeDecay that decays: a timestamp and decayFactors are there
Decaying(call) ==
    /\ call.op = "applyTimeDecay"
    /\ call.timestamp # Undefined
    /\ Has(call.algorithmConfig, "decayFactors")

\* the rate in force: the configured one, or 1/100 when none (or 0) is configured
RateOf(call) ==
    IF TruthyNum(ToNumber(call.algorithmConfig.decayFactors, "rate"))
    THEN call.algorithmConfig.decayFactors.rate
    ELSE Frac(1, 100)

\* C17: applyTimeDecay does not go up as the age goes up, is above 0 before
\* the age of 1/rate days, is exactly 0 at that age and stays 0 after it
C17_DecayMonotoneToZero ==
    Decaying(scoring)
    => LET ageDays == Num(scoring.today - scoring.timestamp.day)
       IN /\ pc = "rescored" => Geq(scoring.before.result, scoring.result)
          /\ Geq(Mul(ageDays, RateOf(scoring)), Num(1)) => scoring.result = Num(0)
          /\ Gt(Num(1), Mul(ageDays, RateOf(scoring))) /\ Gt(scoring.score, Num(0))
               => Gt(scoring.result, Num(0))

\* a score above 0, of age 1 day and then of age 1/rate = 2 days
C17_Witness ==
    /\ Decaying(scoring)
    /\ pc = "rescored"
    /\ RateOf(scoring) = Frac(1, 2)
    /\ scoring.today - scoring.timestamp.day = 2
    /\ scoring.before.today - scoring.timestamp.day = 1
    /\ Gt(scoring.before.result, Num(0))
    /\ scoring.result = Num(0)

\* C18: applyTimeDecay returns the score unchanged whenever the timestamp is
\* missing or the configured decay rate is missing
C18_NoDecayWithoutTimestampOrRate ==
    scoring.op = "applyTimeDecay"
        /\ \/ scoring.timestamp = Undefined
           \/ ~Has(scoring.algorithmConfig, "decayFactors")
           \/ ~Has(scoring.algorithmConfig.decayFactors, "rate")
    => scoring.result = scoring.score

\* C18, amended: applyTimeDecay returns the score unchanged whenever the
\* timestamp is missing or the configuration has no decayFactors; with
\* decayFactors that name no rate, the score decays at 1/100 a day
C18_NoDecayWithoutTimestampOrDecayFactors ==
    scoring.op = "applyTimeDecay"
    => /\ scoring.timestamp = Undefined \/ ~Has(scoring.algorithmConfig, "decayFactors")
            => scoring.result = scoring.score
       /\ Decaying(scoring) /\ ~Has(scoring.algorithmConfig.decayFactors, "rate")
            => scoring.result =
                 Mul(scoring.score,
                     MathMax(Num(0), Sub(Num(1), Frac(scoring.today - scoring.timestamp.day,
                                                      100))))

\* a score above 0 without a timestamp, on a day after day 0, under a
\* configured rate
C18_Witness ==
    /\ scoring.op = "applyTimeDecay"
    /\ scoring.timestamp = Undefined
    /\ Has(scoring.algorithmConfig, "decayFactors")
    /\ Has(scoring.algorithmConfig.decayFactors, "rate")
    /\ scoring.today > 0
    /\ Gt(scoring.score, Num(0))
    /\ scoring.result = scoring.score

\* the edition at place i of the declared ones has at least half of its
\* signals (rounded up) inside the name of some detected feature
MeetsRule(call, i) ==
    LET signals == call.productDefinition.editionSignals[i].signals
        matched == {j \in 1..Len(signals) :
                      \E f \in call.detected : Includes(f, signals[j])}
    IN 2 * Cardinality(matched) >= Len(signals)

\* C19: an edition is selected exactly when the number of its signals that
\* occur, case-sensitively, inside the name of some detected feature is at
\* least ceil(signals.length * 0.5).  Seen from the result: an edition
\* declared after the first is returned only if it meets the rule, and the
\* last-declared one is returned exactly when it meets the rule
C19_HalfOfSignals ==
    scoring.op = "determineEdition" /\ Has(scoring.productDefinition, "editionSignals")
    => LET editions == scoring.productDefinition.editionSignals
       IN /\ \A i \in 2..Len(editions) :
                scoring.edition = editions[i].edition => MeetsRule(scoring, i)
          /\ Len(editions) >= 2
               => (scoring.edition = editions[Len(editions)].edition
                   <=> MeetsRule(scoring, Len(editions)))

\* signals [A, B, C, D] of the last-declared edition, of which A and B
\* occur inside detected feature names and C and D do not
C19_Witness ==
    /\ scoring.op = "determineEdition"
    /\ Has(scoring.productDefinition, "editionSignals")
    /\ Len(scoring.productDefinition.editionSignals) = 2
    /\ scoring.productDefinition.editionSignals[2].signals = <<"A", "B", "C", "D">>
    /\ scoring.detected = {"Plan A", "a", "Bulk"}
    /\ scoring.edition = scoring.productDefinition.editionSignals[2].edition

\* C20: determineEdition returns the last-declared edition that meets the
\* rule; if none does, the first-declared edition; and 'Unknown' when the
\* definition has no editionSignals (or declares no edition)
C20_HighestEditionFirst ==
    scoring.op = "determineEdition"
    => IF ~Has(scoring.productDefinition, "editionSignals") THEN scoring.edition = "Unknown"
       ELSE LET editions == scoring.productDefinition.editionSignals
                meeting == {i \in 1..Len(editions) : MeetsRule(scoring, i)}
            IN IF meeting # {}
               THEN scoring.edition =
                        editions[CHOOSE i \in meeting : \A j \in meeting : i >= j].edition
               ELSE IF Len(editions) > 0 THEN scoring.edition = editions[1].edition
               ELSE scoring.edition = "Unknown"

\* two declared editions that both meet the rule: the second is returned
C20_Witness ==
    /\ scoring.op = "determineEdition"
    /\ Has(scoring.productDefinition, "editionSignals")
    /\ Len(scoring.productDefinition.editionSignals) = 2
    /\ MeetsRule(scoring, 1)
    /\ MeetsRule(scoring, 2)
    /\ scoring.productDefinition.editionSignals[2].signals # << >>
    /\ scoring.edition = scoring.productDefinition.editionSignals[2].edition

\* C21: an indicator item of an unknown type is skipped without error: no
\* evidence is added for it, analyze goes on, and the collection of a
\* finished analysis holds one evidence for every item of a known type, in
\* the order of declaration
C21_UnknownTypeSkipped ==
    /\ probe.op = "skip" => pc = "loop" /\ returned = NotReturned
    /\ \A r \in 1..Len(results) :
          LET known == SelectSeq(Flatten(DefinitionOf(results[r].key)[1].indicators, 1),
                                 LAMBDA item : item.type \in KnownTypes)
              items == results[r].evidence.items
          IN /\ Len(items) = Len(known)
             /\ \A e \in 1..Len(items) : items[e].name = known[e].name

\* a finished analysis of the definition whose second item has an unknown
\* type, followed by an item of the same category and by a second category
C21_Witness ==
    /\ Len(results) > 0
    /\ DefinitionOf(LastResult.key)[1] = Definition.mixed
    /\ Len(LastResult.evidence.items) = 4
    /\ LastResult.evidence.items[2].name = Item.code.name

\* C22: in a run whose configuration is invalid (a part of the scoring
\* configuration or a product definition is missing) the error is raised
\* before any probe: no org call is issued and no analysis result is produced
C22_ConfigErrorBeforeProbes ==
    (\/ validateConfig(config) # ""
     \/ \E key \in 1..Len(config.products) : DefinitionOf(key) = Null)
        => /\ calls = << >>
           /\ results = << >>
           /\ pc # "done"

\* C23: a scoring configuration without evidenceWeights, without
\* decayFactors or without thresholds is rejected when the manager is
\* constructed: the manager never becomes usable and nothing is analysed
C23_ScoringConfigValidated ==
    (\/ validateConfig(config) # ""
     \/ ~Has(AlgorithmConfig, "decayFactors"))
        => pc \in {"new", "threw"} /\ results = << >>

\* C24: a probe run twice with the same arguments against the same answers
\* of the org gives Evidence with the same type, name, detected and details
C24_CollectorDeterministic ==
    pc = "recollected"
        => /\ probe.ev.type = probe.before.ev.type
           /\ probe.ev.name = probe.before.ev.name
           /\ probe.ev.detected = probe.before.ev.detected
           /\ probe.ev.details = probe.before.ev.details

\* C25: analyzeAll takes the product keys one at a time in key order: while
\* a product is analysed the results of all keys before it, and of no other,
\* are complete; and a run in which nothing throws returns one result for
\* every configured key
C25_SequentialOneResultPerKey ==
    /\ \A r \in 1..Len(results) : results[r].key = r
    /\ analyzer.active => analyzer.key = Len(results) + 1
    /\ pc = "loop" => Len(results) = k - 1
    /\ pc = "done"
         => /\ returned.state = "resolved"
            /\ Len(returned.results) = Len(config.products)
            /\ \A key \in 1..Len(config.products) : returned.results[key].key = key

\* analyzeAll has returned the results of two products
C25_Witness ==
    /\ pc = "done"
    /\ Len(config.products) = 2
    /\ Len(returned.results) = 2
    /\ Len(returned.results[1].evidence.items) > 0

\* C26: checkObject reports detected = true exactly when describing the
\* object succeeds; with requiredFields given, details.requiredFieldsPresent
\* is recorded and detected is not changed by it, and a failing count or
\* last-modified query leaves detected = true
C26_DetectedIffDescribed ==
    probe.op = "checkObject"
        => /\ probe.ev.detected = JBool(TRUE) <=> probe.org.describe[probe.input.name] = "ok"
           /\ probe.org.describe[probe.input.name] = "ok"
                  /\ Has(probe.input.options, "requiredFields")
               => Has(probe.ev.details, "requiredFieldsPresent")

\* C27: within checkFeature an 'object' method succeeds only if the object
\* is detected (its describe succeeds) and, when minCount is given, its
\* record count is at least minCount; a 'metadata' method succeeds exactly
\* when the listed records that match the pattern number at least minCount,
\* or at least 1 when no minCount is given.  Stated for the first method of
\* the call, which succeeds when it is the one the Evidence is made from
C27_ObjectAndMetadataMethods ==
    (probe.op = "checkFeature" /\ Has(probe.input.source, "detectionMethods")
     /\ Len(probe.input.source.detectionMethods) > 0)
        => LET method == probe.input.source.detectionMethods[1]
               listed == IF Has(method, "pattern")
                         THEN SelectSeq(probe.org.metadata.records,
                                        LAMBDA r : RegexTest(method.pattern, r))
                         ELSE probe.org.metadata.records
           IN /\ method.type = "object" /\ probe.winner = 1
                   => /\ probe.org.describe[method.name] = "ok"
                      /\ Has(method, "minCount")
                           => /\ probe.org.total.ok
                              /\ probe.org.total.totalSize >= method.minCount
              /\ method.type = "metadata"
                   => (probe.winner = 1
                       <=> /\ probe.org.metadata.ok
                           /\ probe.org.metadata.array
                           /\ Len(listed) >= IF Has(method, "minCount")
                                             THEN method.minCount ELSE 1)

\* C28: after any sequence of addEvidence calls the index by type agrees
\* with the list: under each type the index holds the items of that type,
\* once each and in the order they were added, the lengths of the lists of
\* the index add up to items.length, and getEvidenceByType of a type never
\* added is empty
C28_IndexAgreesWithItems ==
    scoring.op = "calculateScore"
        => LET items == scoring.coll.items
               index == scoring.coll.categorizedItems
           IN /\ \A e \in 1..Len(items) : Has(index, items[e].type)
              /\ \A ty \in DOMAIN index :
                    index[ty] = SelectSeq(items, LAMBDA item : item.type = ty)
              /\ Cardinality(UNION {{<<ty, e>> : e \in 1..Len(index[ty])} :
                                        ty \in DOMAIN index}) = Len(items)
              /\ \A ty \in EvidenceTypes :
                    (\A e \in 1..Len(items) : items[e].type # ty)
                        => getEvidenceByType(scoring.coll, ty) = << >>

\* two different items of the same type, added one after the other
C28_Witness ==
    /\ scoring.op = "calculateScore"
    /\ pc = "scored"
    /\ Len(scoring.coll.items) = 2
    /\ scoring.coll.items[1].type = scoring.coll.items[2].type
    /\ scoring.coll.items[1] # scoring.coll.items[2]
    /\ Len(getEvidenceByType(scoring.coll, scoring.coll.items[1].type)) = 2

\* C29: time decay never raises a score: for every base score s of [0, 1]
\* and every timestamp, one later than now included, the result of
\* applyTimeDecay lies in [0, s]
C29_DecayNeverIncreases ==
    scoring.op = "applyTimeDecay"
        => /\ Geq(scoring.result, Num(0))
           /\ Geq(scoring.score, scoring.result)

\* C30: determineEdition returns an edition through the matching rule, not
\* as the first-declared fallback, only if one of its signals occurs inside
\* the name of a detected feature; with no detected feature the result is
\* the first-declared edition, whatever the signal lists are
C30_EditionNeedsAMatchedSignal ==
    (scoring.op = "determineEdition" /\ Has(scoring.productDefinition, "editionSignals")
     /\ Len(scoring.productDefinition.editionSignals) > 0)
        => LET editions == scoring.productDefinition.editionSignals
           IN /\ \A i \in 2..Len(editions) :
                    scoring.edition = editions[i].edition
                        => \E j \in 1..Len(editions[i].signals), f \in scoring.detected :
                              Includes(f, editions[i].signals[j])
              /\ scoring.detected = {} => scoring.edition = editions[1].edition

=============================================================================
